---- MODULE Spec2Model ----
(***************************************************************************)
(* Model of the video metadata and frame-extraction pipeline of mcp-video: *)
(* the extract_frames and get_video_info tools, the ffmpeg/ffprobe         *)
(* processor they call, the validators and the file handling helpers.      *)
(*                                                                         *)
(* Conventions.                                                            *)
(*  - An optional value (a TypeScript `x?: T`, `T | undefined`, `T | null`)*)
(*    is a sequence: <<>> when absent, <<v>> when present.                 *)
(*  - Times and intervals are integers in tenths of a second, so that the  *)
(*    lower bound 0.1 of `interval` is the integer 1.                      *)
(*  - A text (an Error message, a stderr capture) is a sequence of tokens; *)
(*    String.prototype.includes is token membership.                       *)
(*  - A file name is [stem, ext]: the part before the extension as a       *)
(*    sequence of character codes, and path.extname's result.              *)
(***************************************************************************)
EXTENDS Integers, Sequences, FiniteSets, TLC

None == <<>>
Some(v) == <<v>>
IsSome(o) == o # <<>>
Get(o) == o[1]
OrElse(o, d) == IF o = <<>> THEN d ELSE o[1]

Min(a, b) == IF a <= b THEN a ELSE b

Includes(text, token) == \E i \in DOMAIN text : text[i] = token


(***************************************************************************)
(* Bounds of the model.                                                    *)
(***************************************************************************)
\* The decoder writes at most this many frame files in one run.
MaxProduced == 3

(***************************************************************************)
(* Program constants.                                                      *)
(***************************************************************************)
DefaultInterval == 20
DefaultMaxFrames == 30
DefaultQuality == 75
DefaultWidth == 800
IntervalMin == 1
IntervalMax == 600
MaxFramesMin == 1
MaxFramesMax == 500
QualityMin == 1
QualityMax == 100
WidthMin == 100
WidthMax == 3840

SUPPORTED_VIDEO_FORMATS ==
  <<".mp4", ".webm", ".mov", ".avi", ".mkv", ".m4v",
    ".flv", ".wmv", ".gif", ".mpeg", ".mpg", ".3gp">>

ErrorCode ==
  {"FILE_NOT_FOUND", "INVALID_PATH", "UNSUPPORTED_FORMAT", "FFMPEG_NOT_FOUND",
   "FFMPEG_ERROR", "TRANSCRIPTION_ERROR", "TIMEOUT", "UNKNOWN_ERROR"}

(***************************************************************************)
(* The environment of path resolution: VIDEO_BASE_DIR and the regular      *)
(* files that exist.  A path is [loc, stem, ext]; loc is where its         *)
(* directory part points: "root" for an absolute path as written, "home"   *)
(* for one under the home directory, "base" for one under VIDEO_BASE_DIR,  *)
(* "cwd" for one under the working directory.  An input string has loc     *)
(* "abs", "tilde" or "rel" by its shape, and the empty string is           *)
(* EmptyPath.                                                              *)
(***************************************************************************)
EmptyPath == [loc |-> "rel", stem |-> "", ext |-> ""]

P(loc, stem, ext) == [loc |-> loc, stem |-> stem, ext |-> ext]

\* String.prototype.toLowerCase on an extension.
toLowerCase(ext) ==
  CASE ext = ".MP4" -> ".mp4"
    [] ext = ".MOV" -> ".mov"
    [] OTHER -> ext

VideoBaseDirSet == TRUE

VideoFiles ==
  { P("base", "demo", ".mp4"), P("base", "demo", ".mov"),
    P("base", "clip", ".MOV"), P("base", "notes", ".txt"),
    P("base", "raw", ""), P("root", "movie", ".mkv"),
    P("home", "trip", ".webm"), P("cwd", "local", ".mp4") }

getVideoBaseDir == VideoBaseDirSet

fileExists(files, p) == p \in files

\* The search that keeps the last format that matches instead of the first.
RECURSIVE findLastFormat(_, _, _)
findLastFormat(files, basePath, i) ==
  IF i > Len(SUPPORTED_VIDEO_FORMATS) THEN None
  ELSE LET pathWithExt == [basePath EXCEPT !.ext = SUPPORTED_VIDEO_FORMATS[i]]
           later == findLastFormat(files, basePath, i + 1)
       IN  IF later # None THEN later
           ELSE IF fileExists(files, pathWithExt) THEN Some(pathWithExt)
           ELSE None

RECURSIVE findFirstFormat(_, _, _)
findFirstFormat(files, basePath, i) ==
  IF i > Len(SUPPORTED_VIDEO_FORMATS) THEN None
  ELSE LET pathWithExt == [basePath EXCEPT !.ext = SUPPORTED_VIDEO_FORMATS[i]]
       IN  IF fileExists(files, pathWithExt) THEN Some(pathWithExt)
           ELSE findFirstFormat(files, basePath, i + 1)

findWithExtensions(files, basePath) ==
  IF fileExists(files, basePath) THEN Some(basePath)
  ELSE IF toLowerCase(basePath.ext) = "" THEN findFirstFormat(files, basePath, 1)
  ELSE None

\* A resolution that falls through to the working directory when the base
\* directory holds no match.
resolveVideoPathFallingThrough(baseDir, files, inputPath) ==
  IF inputPath.loc = "abs" THEN findWithExtensions(files, [inputPath EXCEPT !.loc = "root"])
  ELSE IF inputPath.loc = "tilde" THEN findWithExtensions(files, [inputPath EXCEPT !.loc = "home"])
  ELSE IF baseDir /\ findWithExtensions(files, [inputPath EXCEPT !.loc = "base"]) # None
  THEN findWithExtensions(files, [inputPath EXCEPT !.loc = "base"])
  ELSE findWithExtensions(files, [inputPath EXCEPT !.loc = "cwd"])

resolveVideoPath(baseDir, files, inputPath) ==
  IF inputPath.loc = "abs" THEN findWithExtensions(files, [inputPath EXCEPT !.loc = "root"])
  ELSE IF inputPath.loc = "tilde" THEN findWithExtensions(files, [inputPath EXCEPT !.loc = "home"])
  ELSE IF baseDir THEN findWithExtensions(files, [inputPath EXCEPT !.loc = "base"])
  ELSE findWithExtensions(files, [inputPath EXCEPT !.loc = "cwd"])

\* path.isAbsolute of a resolved path.  path.join(baseDir, inputPath) is
\* absolute exactly when VIDEO_BASE_DIR is; path.resolve always is; HOME is
\* taken to be set to an absolute directory.  baseDir is the value of
\* VIDEO_BASE_DIR: absent, or the kind of directory path it holds.
isAbsolute(baseDir, p) ==
  \/ p.loc \in {"root", "home", "cwd"}
  \/ p.loc = "base" /\ baseDir = Some("absolute")

\* The check without toLowerCase.
isSupportedFormatCaseSensitive(p) ==
  \E i \in DOMAIN SUPPORTED_VIDEO_FORMATS : SUPPORTED_VIDEO_FORMATS[i] = p.ext

isSupportedFormat(p) ==
  \E i \in DOMAIN SUPPORTED_VIDEO_FORMATS : SUPPORTED_VIDEO_FORMATS[i] = toLowerCase(p.ext)

getFileExtension(p) == toLowerCase(p.ext)

(***************************************************************************)
(* Validation.  A validator returns an optional VideoError.                *)
(***************************************************************************)
VideoError(code, text) == [code |-> code, message |-> [text |-> text]]

validateVideoPath(baseDir, files, filePath) ==
  IF filePath = EmptyPath
  THEN Some(VideoError("INVALID_PATH", "Video path is required"))
  ELSE LET resolvedPath == resolveVideoPath(baseDir, files, filePath)
       IN  IF resolvedPath = None
           THEN Some(VideoError("FILE_NOT_FOUND", "Video not found"))
           ELSE IF ~isSupportedFormat(Get(resolvedPath))
           THEN Some([code |-> "UNSUPPORTED_FORMAT",
                      message |-> [text |-> "Unsupported video format",
                                   extension |-> getFileExtension(Get(resolvedPath))]])
           ELSE None

\* A range check that forgets the upper bound.
validateRangeNoMax(value, min, max, fieldName) ==
  IF value < min
  THEN Some([code |-> "INVALID_PATH",
             message |-> [text |-> "must be between", field |-> fieldName,
                          min |-> min, max |-> max]])
  ELSE None

\* A range check that rejects the bounds themselves.
validateRangeExclusive(value, min, max, fieldName) ==
  IF value <= min \/ value >= max
  THEN Some([code |-> "INVALID_PATH",
             message |-> [text |-> "must be between", field |-> fieldName,
                          min |-> min, max |-> max]])
  ELSE None

\* Lines 183-189, the check of typeof and isNaN, are not modelled: every value
\* of the model is a number.
validateRange(value, min, max, fieldName) ==
  IF value < min \/ value > max
  THEN Some([code |-> "INVALID_PATH",
             message |-> [text |-> "must be between", field |-> fieldName,
                          min |-> min, max |-> max]])
  ELSE None

\* The checks of validateExtractFramesOptions after the path check, in order.
validateTimeRange(options) ==
  IF IsSome(options.start_time) /\ Get(options.start_time) < 0
  THEN Some(VideoError("INVALID_PATH", "start_time cannot be negative"))
  ELSE IF IsSome(options.end_time) /\ IsSome(options.start_time)
          /\ Get(options.end_time) <= Get(options.start_time)
  THEN Some(VideoError("INVALID_PATH", "end_time must be greater than start_time"))
  ELSE None

\* A validation that runs every check and keeps the last error.
LastError(checks) ==
  IF \E i \in DOMAIN checks : checks[i] # None
  THEN checks[CHOOSE i \in DOMAIN checks :
                checks[i] # None /\ \A j \in (i + 1)..Len(checks) : checks[j] = None]
  ELSE None

FirstError(checks) ==
  IF \E i \in DOMAIN checks : checks[i] # None
  THEN checks[CHOOSE i \in DOMAIN checks :
                checks[i] # None /\ \A j \in 1..(i - 1) : checks[j] = None]
  ELSE None

validateExtractFramesOptions(baseDir, files, options) ==
  FirstError(<<
    validateVideoPath(baseDir, files, options.path),
    IF IsSome(options.interval)
      THEN validateRange(Get(options.interval), IntervalMin, IntervalMax, "interval")
      ELSE None,
    IF IsSome(options.max_frames)
      THEN validateRange(Get(options.max_frames), MaxFramesMin, MaxFramesMax, "max_frames")
      ELSE None,
    IF IsSome(options.quality)
      THEN validateRange(Get(options.quality), QualityMin, QualityMax, "quality")
      ELSE None,
    IF IsSome(options.width)
      THEN validateRange(Get(options.width), WidthMin, WidthMax, "width")
      ELSE None,
    validateTimeRange(options) >>)


(***************************************************************************)
(* formatDuration.  A string is the sequence of its characters; `seconds` *)
(* is in tenths of a second, as every time of the model.                   *)
(***************************************************************************)
Digits == <<"0", "1", "2", "3", "4", "5", "6", "7", "8", "9">>

\* Number.prototype.toString of a non-negative integer.
RECURSIVE toString(_)
toString(n) ==
  IF n < 10 THEN <<Digits[n + 1]>>
  ELSE toString(n \div 10) \o <<Digits[(n % 10) + 1]>>

RECURSIVE padStart(_, _, _)
padStart(str, targetLength, padString) ==
  IF Len(str) >= targetLength THEN str
  ELSE padStart(<<padString>> \o str, targetLength, padString)

\* The formatting with Math.round in place of Math.floor for the seconds.
formatDurationRounded(seconds) ==
  LET hours == seconds \div 36000
      minutes == (seconds % 36000) \div 600
      secs == ((seconds % 600) + 5) \div 10
      mmss == padStart(toString(minutes), 2, "0") \o <<":">>
                \o padStart(toString(secs), 2, "0")
  IN  IF hours > 0
      THEN padStart(toString(hours), 2, "0") \o <<":">> \o mmss
      ELSE mmss

formatDuration(seconds) ==
  LET hours == seconds \div 36000
      minutes == (seconds % 36000) \div 600
      secs == (seconds % 600) \div 10
      mmss == padStart(toString(minutes), 2, "0") \o <<":">>
                \o padStart(toString(secs), 2, "0")
  IN  IF hours > 0
      THEN padStart(toString(hours), 2, "0") \o <<":">> \o mmss
      ELSE mmss

(***************************************************************************)
(* Directories that hold frame files.  fs maps a directory name to         *)
(* [exists, files, used]; a frame file is [stem, ext, content, readable]:  *)
(* content stands for its bytes (who wrote it) and readable says whether   *)
(* fs.readFileSync succeeds on it.                                         *)
(***************************************************************************)
OutDir == "out"
TmpNames == {"tmp1", "tmp2"}
DirNames == {OutDir} \cup TmpNames

NoDir == [exists |-> FALSE, files |-> {}, used |-> FALSE]
EmptyDir == [exists |-> TRUE, files |-> {}, used |-> TRUE]
Removed == [exists |-> FALSE, files |-> {}, used |-> TRUE]
Holding(files) == [exists |-> TRUE, files |-> files, used |-> TRUE]

F(stem, ext, content, readable) ==
  [stem |-> stem, ext |-> ext, content |-> content, readable |-> readable]

\* frame_%04d.jpg for frame number n (n < 10 in this model).
FrameName(n) == <<0, 0, 0, n>>

\* String comparison of the default Array.prototype.sort: by code units, a
\* proper prefix first.
RECURSIVE LexLess(_, _)
LexLess(a, b) ==
  IF a = <<>> THEN b # <<>>
  ELSE IF b = <<>> THEN FALSE
  ELSE IF Head(a) # Head(b) THEN Head(a) < Head(b)
  ELSE LexLess(Tail(a), Tail(b))

RECURSIVE SortFiles(_)
SortFiles(S) ==
  IF S = {} THEN <<>>
  ELSE LET m == CHOOSE x \in S : \A y \in S \ {x} : LexLess(x.stem, y.stem)
       IN  <<m>> \o SortFiles(S \ {m})

\* fs.readdirSync throws when the directory does not exist.
listThrows(dirs, dirPath) == ~dirs[dirPath].exists

\* The listing without its .sort(): here in descending order.
RECURSIVE SortFilesDescending(_)
SortFilesDescending(S) ==
  IF S = {} THEN <<>>
  ELSE LET m == CHOOSE x \in S : \A y \in S \ {x} : LexLess(y.stem, x.stem)
       IN  <<m>> \o SortFilesDescending(S \ {m})

listFilesUnsorted(dirs, dirPath, extension) ==
  SortFilesDescending({f \in dirs[dirPath].files : f.ext = extension})

listFilesWithExtension(dirs, dirPath, extension) ==
  SortFiles({f \in dirs[dirPath].files : f.ext = extension})

getExistingFrames(dirs, dirPath) ==
  IF listThrows(dirs, dirPath) THEN <<>>
  ELSE listFilesWithExtension(dirs, dirPath, ".jpg")

ensureDir(dirs, dirPath) ==
  IF ~dirs[dirPath].exists THEN [dirs EXCEPT ![dirPath] = EmptyDir] ELSE dirs

\* A scratch directory with one fixed name for every call.
createTempDirFixedName(dirs) == CHOOSE t \in TmpNames : t = "tmp1"

\* fs.mkdtempSync appends six random characters to the prefix: a name that no
\* directory has, nor (the model's reading of `random`) ever had; a directory
\* record keeps `used` once a directory was made under the name.
createTempDir(dirs) == CHOOSE t \in TmpNames : ~dirs[t].exists /\ ~dirs[t].used

\* A cleanup that removes nothing.
cleanupTempDirSkipped(dirs, tempDir) == dirs

cleanupTempDir(dirs, tempDir) ==
  IF dirs[tempDir].exists THEN [dirs EXCEPT ![tempDir] = Removed] ELSE dirs

readThrows(frameFiles) == \E i \in DOMAIN frameFiles : ~frameFiles[i].readable

ReadError == <<"EACCES", "permission denied">>

\* The loop counting its positions from 1.
readFramesOneBased(frameFiles, interval, startTime) ==
  [i \in DOMAIN frameFiles |->
     [index |-> i,
      timestamp_seconds |-> OrElse(startTime, 0) + i * interval,
      image |-> frameFiles[i].content,
      mime_type |-> "image/jpeg"]]

\* The loop shared by the processor's extractFrames (startTime || 0) and the
\* tool's readExistingFramesFromDisk (startTime = 0 by default).
readFrames(frameFiles, interval, startTime) ==
  [i \in DOMAIN frameFiles |->
     [index |-> i - 1,
      timestamp_seconds |-> OrElse(startTime, 0) + (i - 1) * interval,
      image |-> frameFiles[i].content,
      mime_type |-> "image/jpeg"]]

readExistingFramesFromDisk(framePaths, interval, startTime) ==
  readFrames(framePaths, interval, startTime)

(***************************************************************************)
(* The probe: ffprobe's outcomes, getVideoInfo and parseVideoMetadata.     *)
(* The probed video lasts 10 s (100 tenths) when ffprobe reports a         *)
(* duration; parseFloat(undefined) || 0 makes it 0 otherwise.  ffprobe     *)
(* leaves codec_name out of a stream whose codec it does not know.         *)
(***************************************************************************)
\* r_frame_rate is absent, <<num, den>> for the string "num/den", or
\* <<hundredths>> for a decimal string such as "29.97".
Stream(type, codec, w, h, rate) ==
  [codec_type |-> type, codec_name |-> codec, width |-> w, height |-> h,
   r_frame_rate |-> rate]

Doc(streams, duration) == [streams |-> streams, duration |-> duration]

ProbeDocs ==
  { Doc(Some(<<Stream("video", Some("h264"), 1920, 1080, Some(<<30, 1>>)),
               Stream("audio", Some("aac"), 0, 0, Some(<<0, 0>>))>>), Some(100)),
    Doc(Some(<<Stream("video", Some("h264"), 1920, 1080, Some(<<30, 1>>))>>), None),
    Doc(Some(<<Stream("video", Some("h264"), 1920, 1080, Some(<<30, 1>>)),
               Stream("audio", None, 0, 0, Some(<<0, 0>>))>>), Some(100)),
    Doc(None, Some(100)) }

ProbeDiagnostics == { <<>>, <<"error while loading shared libraries">> }
DecoderDiagnostics ==
  { <<"Invalid data found when processing input">>, <<"moov atom", "not found">> }
SpawnErrnos == {"ENOENT", "EACCES"}
\* Messages of the SyntaxError JSON.parse throws; the second quotes the input.
ParseErrors ==
  { <<"SyntaxError", "Unexpected end of JSON input">>,
    <<"SyntaxError", "Unexpected token", "not found", "is not valid JSON">> }

ProbeOutcomes ==
  [kind : {"spawn_error"}, errno : SpawnErrnos]
  \cup [kind : {"exit"}, code : {1}, stderr : ProbeDiagnostics]
  \cup [kind : {"unparsable"}, code : {0}, parseError : ParseErrors]
  \cup [kind : {"ok"}, code : {0}, doc : ProbeDocs]

Resolved(value) == [ok |-> TRUE, value |-> value]
Rejected(message) == [ok |-> FALSE, message |-> message]

\* The promise of the processor's getVideoInfo, settled by ffprobe's outcome.
getVideoInfo(outcome) ==
  CASE outcome.kind = "spawn_error" ->
         Rejected(<<"Failed to run ffprobe:", "spawn", outcome.errno>>)
    [] outcome.kind = "exit" ->
         Rejected(<<"ffprobe exited with code">> \o outcome.stderr)
    [] outcome.kind = "unparsable" ->
         Rejected(<<"Failed to parse ffprobe output:">> \o outcome.parseError)
    [] OTHER -> Resolved(outcome.doc)

\* probeResult.streams.find on a document without streams.
parseThrows(probeResult) == probeResult.streams = None
ParseTypeError == <<"TypeError", "Cannot read properties of undefined">>

\* The search that keeps the last stream of the type.
LastOfType(streams, type) ==
  IF \E i \in DOMAIN streams : streams[i].codec_type = type
  THEN Some(streams[CHOOSE i \in DOMAIN streams :
                      streams[i].codec_type = type
                      /\ \A j \in (i + 1)..Len(streams) : streams[j].codec_type # type])
  ELSE None

FirstOfType(streams, type) ==
  IF \E i \in DOMAIN streams : streams[i].codec_type = type
  THEN Some(streams[CHOOSE i \in DOMAIN streams :
                      streams[i].codec_type = type
                      /\ \A j \in 1..(i - 1) : streams[j].codec_type # type])
  ELSE None

\* Lines 128-132 and 145: the frame rate in hundredths of a frame per second,
\* Math.round(fps * 100) / 100 with round(x) = floor(x + 1/2).  A zero
\* denominator makes the quotient NaN or Infinity: not a finite number.
Fps(hundredths) == [finite |-> TRUE, hundredths |-> hundredths]
NotFinite == [finite |-> FALSE, hundredths |-> 0]

frameRate(videoStream) ==
  IF videoStream = None \/ Get(videoStream).r_frame_rate = None THEN Fps(0)
  ELSE LET r == Get(Get(videoStream).r_frame_rate)
       IN  IF Len(r) = 1 THEN Fps(r[1])
           ELSE IF r[2] = 0 THEN NotFinite
           ELSE Fps((200 * r[1] + r[2]) \div (2 * r[2]))

parseVideoMetadata(filePath, probeResult) ==
  LET streams == Get(probeResult.streams)
      videoStream == FirstOfType(streams, "video")
      audioStream == FirstOfType(streams, "audio")
  IN  [filepath |-> filePath,
       duration_seconds |-> OrElse(probeResult.duration, 0),
       resolution |-> IF IsSome(videoStream)
                      THEN Some(<<Get(videoStream).width, Get(videoStream).height>>)
                      ELSE None,
       width |-> IF IsSome(videoStream) THEN Get(videoStream).width ELSE 0,
       height |-> IF IsSome(videoStream) THEN Get(videoStream).height ELSE 0,
       fps |-> frameRate(videoStream),
       codec |-> IF IsSome(videoStream)
                 THEN OrElse(Get(videoStream).codec_name, "unknown") ELSE "unknown",
       audio_codec |-> IF IsSome(audioStream) THEN Get(audioStream).codec_name ELSE None,
       has_audio |-> IsSome(audioStream)]

(***************************************************************************)
(* Error classification.                                                   *)
(***************************************************************************)
createFfmpegError(message) ==
  IF Includes(message, "not found") \/ Includes(message, "ENOENT")
  THEN [code |-> "FFMPEG_NOT_FOUND",
        message |-> [text |-> "ffmpeg is not installed or not in PATH"]]
  ELSE [code |-> "FFMPEG_ERROR",
        message |-> [text |-> "FFmpeg error", originalError |-> message]]


(***************************************************************************)
(* The decoder: ffmpeg's outcomes, its arguments and runFfmpeg.            *)
(***************************************************************************)
\* The mapping with Math.floor in place of Math.round.
nativeQualityTruncated(quality) == ((100 - quality) * 5 + 32) \div 16

\* The mapping without the inversion of the scale: quality in place of
\* 100 - quality.
nativeQualityNotInverted(quality) == (quality * 5 + 40) \div 16

\* Math.round((100 - quality) / 3.2 + 2): round(x) = floor(x + 1/2), and
\* (100 - q) / 3.2 + 2 + 1/2 = ((100 - q) * 5 + 40) / 16.
nativeQuality(quality) == ((100 - quality) * 5 + 40) \div 16

\* The arguments with the seek pushed after the input file: an output-side seek.
buildArgsSeekAfterInput(normalizedPath, opts, tempDir) ==
  LET seek == IsSome(opts.startTime) /\ Get(opts.startTime) > 0
      limit == IF IsSome(opts.endTime) /\ IsSome(opts.startTime)
               THEN Some(Get(opts.endTime) - Get(opts.startTime))
               ELSE IF IsSome(opts.endTime) THEN opts.endTime
               ELSE None
  IN  [flags |-> <<"-i">> \o (IF seek THEN <<"-ss">> ELSE <<>>)
                 \o (IF IsSome(limit) THEN <<"-t">> ELSE <<>>)
                 \o <<"-vf", "-q:v", "-frames:v", "output">>,
       ss |-> IF seek THEN opts.startTime ELSE None,
       i |-> normalizedPath,
       t |-> limit,
       fps_interval |-> opts.interval,
       scale |-> opts.width,
       q |-> nativeQuality(opts.quality),
       frames |-> opts.maxFrames,
       output |-> tempDir]

\* The arguments extractFrames pushes, in the order of `flags`.
buildArgs(normalizedPath, opts, tempDir) ==
  LET seek == IsSome(opts.startTime) /\ Get(opts.startTime) > 0
      limit == IF IsSome(opts.endTime) /\ IsSome(opts.startTime)
               THEN Some(Get(opts.endTime) - Get(opts.startTime))
               ELSE IF IsSome(opts.endTime) THEN opts.endTime
               ELSE None
  IN  [flags |-> (IF seek THEN <<"-ss">> ELSE <<>>) \o <<"-i">>
                 \o (IF IsSome(limit) THEN <<"-t">> ELSE <<>>)
                 \o <<"-vf", "-q:v", "-frames:v", "output">>,
       ss |-> IF seek THEN opts.startTime ELSE None,
       i |-> normalizedPath,
       t |-> limit,
       fps_interval |-> opts.interval,
       scale |-> opts.width,
       q |-> nativeQuality(opts.quality),
       frames |-> opts.maxFrames,
       output |-> tempDir]

\* What one run of the decoder can do: fail to start, or exit after writing
\* `written` frame files, the last of which may be unreadable.
DecoderOutcomes(maxFrames) ==
  [kind : {"spawn_error"}, errno : SpawnErrnos]
  \cup [kind : {"exit"}, code : {1}, stderr : DecoderDiagnostics,
        written : {0}, lastUnreadable : {FALSE}]
  \cup [kind : {"exit"}, code : {0}, stderr : {<<>>},
        written : 0..Min(maxFrames, MaxProduced), lastUnreadable : BOOLEAN]

\* The files a run (with -y: overwriting) leaves in its output directory.
decoderWrites(dirs, dirPath, writer, outcome) ==
  IF outcome.kind # "exit" \/ ~dirs[dirPath].exists THEN dirs
  ELSE LET produced ==
             { F(FrameName(n), ".jpg", writer,
                 ~(outcome.lastUnreadable /\ n = outcome.written)) :
               n \in 1..outcome.written }
           kept == { f \in dirs[dirPath].files :
                       ~\E g \in produced : g.stem = f.stem /\ g.ext = f.ext }
       IN  [dirs EXCEPT ![dirPath].files = kept \cup produced]

runFfmpeg(outcome) ==
  IF outcome.kind = "spawn_error"
  THEN Rejected(<<"Failed to run ffmpeg:", "spawn", outcome.errno>>)
  ELSE IF outcome.code # 0
  THEN Rejected(<<"ffmpeg exited with code">> \o outcome.stderr)
  ELSE Resolved(<<>>)

\* The processor's extractFrames from the return of runFfmpeg on: what it
\* leaves on disk and how its promise settles.
extractFramesSettle(dirs, tempDir, opts, ran) ==
  IF ~ran.ok
  THEN [dirs |-> cleanupTempDir(dirs, tempDir), settled |-> ran]
  ELSE LET frameFiles == listFilesWithExtension(dirs, tempDir, ".jpg")
       IN  IF readThrows(frameFiles)
           THEN [dirs |-> cleanupTempDir(dirs, tempDir), settled |-> Rejected(ReadError)]
           ELSE [dirs |-> dirs,
                 settled |-> Resolved([frames |-> readFrames(frameFiles, opts.interval,
                                                             opts.startTime),
                                       tempDir |-> tempDir])]

\* extractFrameAtTime from the return of runFfmpeg on.
NoOutputError == <<"Failed to extract frame - output file not created">>

extractFrameAtTimeSettle(dirs, tempDir, timestamp, ran) ==
  LET outputFiles == { f \in dirs[tempDir].files : f.ext = ".jpg" }
      gone == cleanupTempDir(dirs, tempDir)
  IN  IF ~ran.ok THEN [dirs |-> gone, settled |-> ran]
      ELSE IF outputFiles = {} THEN [dirs |-> gone, settled |-> Rejected(NoOutputError)]
      ELSE IF \E f \in outputFiles : ~f.readable
      THEN [dirs |-> gone, settled |-> Rejected(ReadError)]
      ELSE [dirs |-> gone,
            settled |-> Resolved([index |-> 0, timestamp_seconds |-> timestamp,
                                  image |-> (CHOOSE f \in outputFiles : TRUE).content,
                                  mime_type |-> "image/jpeg"])]


(***************************************************************************)
(* The calls.  Each call runs one operation once; calls interleave at the  *)
(* awaits (the probe and the decoder run), and the code between two awaits *)
(* runs as one step (Node.js runs it to completion on one thread).         *)
(***************************************************************************)
Calls == {"c1", "c2"}

Input(path, interval, max_frames, quality, width, start_time, end_time, output_dir) ==
  [path |-> path, interval |-> interval, max_frames |-> max_frames,
   quality |-> quality, width |-> width, start_time |-> start_time,
   end_time |-> end_time, output_dir |-> output_dir]

GoodPath == P("rel", "demo", "")
BadPaths == { EmptyPath, P("rel", "missing", ".mp4"), P("rel", "notes", ".txt"),
              P("rel", "raw", "") }

\* A file whose extension is written in capitals.
UpperCasePath == P("rel", "clip", ".MOV")

OutputDirs == { None, Some(OutDir) }

ExtractInputs ==
  { Input(GoodPath, n[1], n[2], n[3], n[4], w[1], w[2], o) :
      n \in { <<None, None, None, None>>, <<Some(5), Some(1), Some(1), Some(100)>> },
      w \in { <<None, None>>, <<Some(0), None>>, <<Some(50), Some(90)>>,
              <<None, Some(60)>>, <<Some(100), None>> },
      o \in OutputDirs }
  \cup { Input(p, None, None, None, None, None, None, o) : p \in BadPaths, o \in OutputDirs }
  \cup { Input(UpperCasePath, None, None, None, None, None, None, None) }
  \cup { Input(GoodPath, n[1], n[2], n[3], n[4], None, None, o) :
           n \in { <<Some(0), None, None, None>>, <<None, Some(501), None, None>>,
                   <<None, None, Some(0), None>>, <<None, None, None, Some(50)>> },
           o \in OutputDirs }
  \cup { Input(GoodPath, None, None, None, None, w[1], w[2], o) :
           w \in { <<Some(-10), None>>, <<Some(50), Some(50)>>, <<None, Some(0)>> },
           o \in OutputDirs }

InfoPaths == { GoodPath, UpperCasePath } \cup BadPaths

Timestamps == { 0, 30 }

\* What output_dir holds before any call.
InitialOutDirs ==
  { NoDir, EmptyDir,
    Holding({ F(<<7>>, ".txt", "old", TRUE) }),
    Holding({ F(<<1, 0>>, ".jpg", "old10", TRUE), F(<<2>>, ".jpg", "old2", TRUE),
              F(<<1>>, ".jpg", "old1", TRUE), F(<<7>>, ".txt", "old", TRUE) }),
    Holding({ F(<<1>>, ".jpg", "old1", TRUE), F(<<2>>, ".jpg", "old2", FALSE) }) }

VARIABLES
  fs,           \* the directories of frame files
  pc,           \* where each call is: "idle", "probe", "decode", "done"
  op,           \* the operation each call runs
  input,        \* the input each call was given
  metadata,     \* the tool's `metadata`, once parsed
  tempDir,      \* the processor's `tempDir`, once created
  args,         \* the arguments of the call's decoder run
  runs,         \* the subprocesses each call has spawned, with their outcomes
  result,       \* what each call returned (or threw)
  outDirAtCall, \* output_dir as it was when the call was made
  doneAtCall,   \* the calls that had returned when the call was made
  fnArg,        \* a pure function under study and its argument
  fnOut         \* its value, once applied

vars == <<fs, pc, op, input, metadata, tempDir, args, runs, result,
          outDirAtCall, doneAtCall, fnArg, fnOut>>

pure == <<fnArg, fnOut>>

Pending == [pending |-> TRUE]
Failure(error) == [success |-> FALSE, error |-> error]
Thrown(message) == [thrown |-> message]

Run(tool) == [tool |-> tool, kind |-> "running", text |-> <<>>]

\* How a finished subprocess is recorded: what it did and its diagnostic text.
Ran(tool, outcome) ==
  [tool |-> tool,
   kind |-> IF outcome.kind = "exit" THEN (IF outcome.code = 0 THEN "ok" ELSE "exit_nonzero")
            ELSE outcome.kind,
   text |-> CASE outcome.kind = "exit" -> outcome.stderr
              [] outcome.kind = "unparsable" -> outcome.parseError
              [] outcome.kind = "spawn_error" -> <<outcome.errno>>
              [] OTHER -> <<>>]

Finished(c, run) == [runs EXCEPT ![c][Len(runs[c])] = run]

TypeOK ==
  /\ pc \in [Calls -> {"idle", "probe", "decode", "done"}]
  /\ op \in [Calls -> {"none", "extract_frames", "get_video_info", "extract_frame_at_time"}]
  /\ \A d \in DirNames : fs[d].exists \in BOOLEAN /\ fs[d].used \in BOOLEAN

NoCalls ==
  /\ pc = [c \in Calls |-> "idle"]
  /\ op = [c \in Calls |-> "none"]
  /\ input = [c \in Calls |-> None]
  /\ metadata = [c \in Calls |-> None]
  /\ tempDir = [c \in Calls |-> None]
  /\ args = [c \in Calls |-> None]
  /\ runs = [c \in Calls |-> <<>>]
  /\ result = [c \in Calls |-> Pending]
  /\ outDirAtCall = [c \in Calls |-> NoDir]
  /\ doneAtCall = [c \in Calls |-> {}]

Init ==
  /\ fs \in { [d \in DirNames |-> IF d = OutDir THEN o ELSE NoDir] : o \in InitialOutDirs }
  /\ NoCalls
  /\ fnArg = [fn |-> "none"]
  /\ fnOut = None

\* What every call records when it is made.  The calls of one behaviour are one
\* request issued twice: a repetition after the first call has returned, or a
\* duplicate that runs concurrently with it.
Called(c, operation, in) ==
  /\ pc[c] = "idle"
  /\ \A d \in Calls \ {c} : op[d] = "none" \/ (op[d] = operation /\ input[d] = Some(in))
  /\ op' = [op EXCEPT ![c] = operation]
  /\ input' = [input EXCEPT ![c] = Some(in)]
  /\ outDirAtCall' = [outDirAtCall EXCEPT ![c] = fs[OutDir]]
  /\ doneAtCall' = [doneAtCall EXCEPT ![c] = { d \in Calls : pc[d] = "done" }]
  /\ UNCHANGED pure

Return(c, value) ==
  /\ pc' = [pc EXCEPT ![c] = "done"]
  /\ result' = [result EXCEPT ![c] = value]

(***************************************************************************)
(* extract_frames, the tool.                                               *)
(***************************************************************************)
applyDefaults(in) ==
  [path |-> in.path,
   interval |-> Some(OrElse(in.interval, DefaultInterval)),
   max_frames |-> Some(OrElse(in.max_frames, DefaultMaxFrames)),
   quality |-> Some(OrElse(in.quality, DefaultQuality)),
   width |-> Some(OrElse(in.width, DefaultWidth)),
   start_time |-> in.start_time,
   end_time |-> in.end_time,
   output_dir |-> in.output_dir]

Options(c) == applyDefaults(Get(input[c]))

usePersistentOutput(options) == IsSome(options.output_dir)

\* A tool that hands the processor no maxFrames, so that the processor's own
\* default is the cap.
processorOptionsWithoutCap(options) ==
  [interval |-> Get(options.interval), maxFrames |-> DefaultMaxFrames,
   quality |-> Get(options.quality), width |-> Get(options.width),
   startTime |-> options.start_time, endTime |-> options.end_time,
   outputDir |-> options.output_dir]

\* The options the tool hands to the processor's extractFrames, which reads
\* interval, maxFrames, quality, width, startTime and endTime of them.
processorOptions(options) ==
  [interval |-> Get(options.interval), maxFrames |-> Get(options.max_frames),
   quality |-> Get(options.quality), width |-> Get(options.width),
   startTime |-> options.start_time, endTime |-> options.end_time,
   outputDir |-> options.output_dir]

StartTimeError(start_time, duration_seconds) ==
  [code |-> "INVALID_PATH",
   message |-> [text |-> "start_time exceeds video duration",
                start_time |-> start_time, duration |-> duration_seconds]]

\* A response that reports the requested max_frames as the number extracted.
SuccessCountingRequested(meta, frames, options, frame_paths, output_directory) ==
  [success |-> TRUE, metadata |-> meta, frames |-> frames,
   extraction_info |-> [total_frames_extracted |-> Get(options.max_frames),
                        interval_used |-> Get(options.interval),
                        quality |-> Get(options.quality),
                        width |-> Get(options.width)],
   frame_paths |-> frame_paths, output_directory |-> output_directory]

Success(meta, frames, options, frame_paths, output_directory) ==
  [success |-> TRUE, metadata |-> meta, frames |-> frames,
   extraction_info |-> [total_frames_extracted |-> Len(frames),
                        interval_used |-> Get(options.interval),
                        quality |-> Get(options.quality),
                        width |-> Get(options.width)],
   frame_paths |-> frame_paths, output_directory |-> output_directory]

\* A tool that makes sure of output_dir as soon as it is called.
CallExtractFramesEnsuringDir(c, in) ==
  LET options == applyDefaults(in)
      validationError == validateExtractFramesOptions(getVideoBaseDir, VideoFiles, options)
      resolvedPath == resolveVideoPath(getVideoBaseDir, VideoFiles, options.path)
  IN  /\ Called(c, "extract_frames", in)
      /\ IF IsSome(validationError)
         THEN Return(c, Failure(Get(validationError))) /\ UNCHANGED runs
         ELSE IF resolvedPath = None
         THEN Return(c, Failure(VideoError("FILE_NOT_FOUND", "Could not resolve video path")))
              /\ UNCHANGED runs
         ELSE /\ pc' = [pc EXCEPT ![c] = "probe"]
              /\ runs' = [runs EXCEPT ![c] = Append(@, Run("ffprobe"))]
              /\ UNCHANGED result
      /\ fs' = IF usePersistentOutput(options)
               THEN ensureDir(fs, Get(options.output_dir)) ELSE fs
      /\ UNCHANGED <<metadata, tempDir, args>>

\* Lines 98-136: defaults, validation, path resolution, and the probe is spawned.
CallExtractFrames(c, in) ==
  LET options == applyDefaults(in)
      validationError == validateExtractFramesOptions(getVideoBaseDir, VideoFiles, options)
      resolvedPath == resolveVideoPath(getVideoBaseDir, VideoFiles, options.path)
  IN  /\ Called(c, "extract_frames", in)
      /\ IF IsSome(validationError)
         THEN Return(c, Failure(Get(validationError))) /\ UNCHANGED runs
         ELSE IF resolvedPath = None
         THEN Return(c, Failure(VideoError("FILE_NOT_FOUND", "Could not resolve video path")))
              /\ UNCHANGED runs
         ELSE /\ pc' = [pc EXCEPT ![c] = "probe"]
              /\ runs' = [runs EXCEPT ![c] = Append(@, Run("ffprobe"))]
              /\ UNCHANGED result
      /\ UNCHANGED <<fs, metadata, tempDir, args>>

\* The check with > in place of >=.
startTimeStrictlyExceeds(options, meta) ==
  IsSome(options.start_time) /\ Get(options.start_time) > meta.duration_seconds

\* Line 140: the time range against the video's duration.
startTimeExceeds(options, meta) ==
  IsSome(options.start_time) /\ Get(options.start_time) >= meta.duration_seconds

\* A processor that works in the caller's directory when it is given one, and
\* so removes it in its catch.
processorTempDirAtOutput(dirs, opts) ==
  IF IsSome(opts.outputDir) THEN Get(opts.outputDir) ELSE createTempDir(dirs)

\* Processor line 182: the directory the decoder writes into.  The processor
\* does not read the outputDir the tool passes among its options.
processorTempDir(dirs, opts) == createTempDir(dirs)

\* Lines 136-191, after the probe has settled: the metadata, the start_time
\* check, the reuse of existing frames, and the processor's extractFrames up to
\* its await of runFfmpeg (processor lines 170-221); the catch of line 221.
\* Either the tool returns `value`, or it awaits the decoder.
Returns(value, meta) == [await |-> FALSE, value |-> value, meta |-> meta]

\* A tool that looks for existing frames before it checks start_time.
extractFramesCacheFirst(dirs, options, outcome) ==
  LET resolvedPath == Get(resolveVideoPath(getVideoBaseDir, VideoFiles, options.path))
      probed == getVideoInfo(outcome)
      meta == parseVideoMetadata(resolvedPath, probed.value)
      existingFramePaths == getExistingFrames(dirs, Get(options.output_dir))
      ensured == IF usePersistentOutput(options)
                 THEN ensureDir(dirs, Get(options.output_dir)) ELSE dirs
      newTemp == processorTempDir(ensured, processorOptions(options))
  IN  IF ~probed.ok
      THEN Returns(Failure(createFfmpegError(probed.message)), None)
      ELSE IF parseThrows(probed.value)
      THEN Returns(Failure(createFfmpegError(ParseTypeError)), None)
      ELSE IF usePersistentOutput(options) /\ Len(existingFramePaths) > 0
      THEN IF readThrows(existingFramePaths)
           THEN Returns(Failure(createFfmpegError(ReadError)), Some(meta))
           ELSE Returns(Success(meta,
                                readExistingFramesFromDisk(existingFramePaths,
                                  Get(options.interval), options.start_time),
                                options, Some(existingFramePaths), options.output_dir),
                        Some(meta))
      ELSE IF startTimeExceeds(options, meta)
      THEN Returns(Failure(StartTimeError(Get(options.start_time), meta.duration_seconds)),
                   Some(meta))
      ELSE [await |-> TRUE, meta |-> Some(meta),
            dirs |-> [ensured EXCEPT ![newTemp] = EmptyDir],
            tempDir |-> newTemp,
            args |-> buildArgs(resolvedPath, processorOptions(options), newTemp)]

extractFramesAfterProbe(dirs, options, outcome) ==
  LET resolvedPath == Get(resolveVideoPath(getVideoBaseDir, VideoFiles, options.path))
      probed == getVideoInfo(outcome)
      meta == parseVideoMetadata(resolvedPath, probed.value)
      existingFramePaths == getExistingFrames(dirs, Get(options.output_dir))
      ensured == IF usePersistentOutput(options)
                 THEN ensureDir(dirs, Get(options.output_dir)) ELSE dirs
      newTemp == processorTempDir(ensured, processorOptions(options))
  IN  IF ~probed.ok
      THEN Returns(Failure(createFfmpegError(probed.message)), None)
      ELSE IF parseThrows(probed.value)
      THEN Returns(Failure(createFfmpegError(ParseTypeError)), None)
      ELSE IF startTimeExceeds(options, meta)
      THEN Returns(Failure(StartTimeError(Get(options.start_time), meta.duration_seconds)),
                   Some(meta))
      ELSE IF usePersistentOutput(options) /\ Len(existingFramePaths) > 0
      THEN IF readThrows(existingFramePaths)
           THEN Returns(Failure(createFfmpegError(ReadError)), Some(meta))
           ELSE Returns(Success(meta,
                                readExistingFramesFromDisk(existingFramePaths,
                                  Get(options.interval), options.start_time),
                                options, Some(existingFramePaths), options.output_dir),
                        Some(meta))
      ELSE [await |-> TRUE, meta |-> Some(meta),
            dirs |-> [ensured EXCEPT ![newTemp] = EmptyDir],
            tempDir |-> newTemp,
            args |-> buildArgs(resolvedPath, processorOptions(options), newTemp)]

ProbedStep(c, outcome, next) ==
  /\ metadata' = [metadata EXCEPT ![c] = next.meta]
  /\ IF next.await
     THEN /\ fs' = next.dirs
          /\ tempDir' = [tempDir EXCEPT ![c] = Some(next.tempDir)]
          /\ args' = [args EXCEPT ![c] = Some(next.args)]
          /\ runs' = [Finished(c, Ran("ffprobe", outcome)) EXCEPT
                        ![c] = Append(@, Run("ffmpeg"))]
          /\ pc' = [pc EXCEPT ![c] = "decode"]
          /\ UNCHANGED result
     ELSE /\ Return(c, next.value)
          /\ runs' = Finished(c, Ran("ffprobe", outcome))
          /\ UNCHANGED <<fs, tempDir, args>>
  /\ UNCHANGED <<op, input, outDirAtCall, doneAtCall, fnArg, fnOut>>

\* A tool that runs the probe a second time when the first run fails.
ExtractFramesProbedRetrying(c, outcome) ==
  /\ pc[c] = "probe" /\ op[c] = "extract_frames"
  /\ IF outcome.kind # "ok" /\ Len(runs[c]) = 1
     THEN /\ runs' = [Finished(c, Ran("ffprobe", outcome)) EXCEPT
                        ![c] = Append(@, Run("ffprobe"))]
          /\ UNCHANGED <<fs, pc, op, input, metadata, tempDir, args, result,
                         outDirAtCall, doneAtCall, fnArg, fnOut>>
     ELSE ProbedStep(c, outcome, extractFramesAfterProbe(fs, Options(c), outcome))

ExtractFramesProbed(c, outcome) ==
  /\ pc[c] = "probe" /\ op[c] = "extract_frames"
  /\ ProbedStep(c, outcome, extractFramesAfterProbe(fs, Options(c), outcome))

\* Processor lines 221-245 and tool lines 193-231, after the decoder has
\* settled.  The tool's own `tempDir` is still null when the processor rejects,
\* so its catch cleans nothing up.
extractFramesAfterDecoder(dirs, options, meta, tempDirOfCall, ran) ==
  LET done == extractFramesSettle(dirs, tempDirOfCall, processorOptions(options), ran)
  IN  IF done.settled.ok
      THEN [dirs |-> IF ~usePersistentOutput(options)
                     THEN cleanupTempDir(done.dirs, done.settled.value.tempDir)
                     ELSE done.dirs,
            value |-> Success(meta, done.settled.value.frames, options, None, None)]
      ELSE [dirs |-> done.dirs,
            value |-> Failure(createFfmpegError(done.settled.message))]

ExtractFramesDecoded(c, outcome) ==
  LET written == decoderWrites(fs, Get(args[c]).output, c, outcome)
      done == extractFramesAfterDecoder(written, Options(c), Get(metadata[c]),
                                        Get(tempDir[c]), runFfmpeg(outcome))
  IN  /\ pc[c] = "decode" /\ op[c] = "extract_frames"
      /\ outcome \in DecoderOutcomes(Get(args[c]).frames)
      /\ runs' = Finished(c, Ran("ffmpeg", outcome))
      /\ fs' = done.dirs
      /\ Return(c, done.value)
      /\ UNCHANGED <<op, input, metadata, tempDir, args, outDirAtCall, doneAtCall,
                     fnArg, fnOut>>

(***************************************************************************)
(* get_video_info, the tool.                                               *)
(***************************************************************************)
CallGetVideoInfo(c, path) ==
  LET validationError == validateVideoPath(getVideoBaseDir, VideoFiles, path)
      resolvedPath == resolveVideoPath(getVideoBaseDir, VideoFiles, path)
  IN  /\ Called(c, "get_video_info",
                Input(path, None, None, None, None, None, None, None))
      /\ IF IsSome(validationError)
         THEN Return(c, Failure(Get(validationError))) /\ UNCHANGED runs
         ELSE IF resolvedPath = None
         THEN Return(c, Failure(VideoError("FILE_NOT_FOUND", "Could not resolve video path")))
              /\ UNCHANGED runs
         ELSE /\ pc' = [pc EXCEPT ![c] = "probe"]
              /\ runs' = [runs EXCEPT ![c] = Append(@, Run("ffprobe"))]
              /\ UNCHANGED result
      /\ UNCHANGED <<fs, metadata, tempDir, args>>

\* parseVideoMetadata called outside the try: its TypeError escapes.
getVideoInfoParseOutsideTry(path, outcome) ==
  LET resolvedPath == Get(resolveVideoPath(getVideoBaseDir, VideoFiles, path))
      probed == getVideoInfo(outcome)
  IN  IF ~probed.ok THEN Failure(createFfmpegError(probed.message))
      ELSE IF parseThrows(probed.value) THEN Thrown(ParseTypeError)
      ELSE [success |-> TRUE, metadata |-> parseVideoMetadata(resolvedPath, probed.value)]

getVideoInfoAfterProbe(path, outcome) ==
  LET resolvedPath == Get(resolveVideoPath(getVideoBaseDir, VideoFiles, path))
      probed == getVideoInfo(outcome)
  IN  IF ~probed.ok THEN Failure(createFfmpegError(probed.message))
      ELSE IF parseThrows(probed.value) THEN Failure(createFfmpegError(ParseTypeError))
      ELSE [success |-> TRUE, metadata |-> parseVideoMetadata(resolvedPath, probed.value)]

GetVideoInfoProbed(c, outcome) ==
  /\ pc[c] = "probe" /\ op[c] = "get_video_info"
  /\ runs' = Finished(c, Ran("ffprobe", outcome))
  /\ Return(c, getVideoInfoAfterProbe(Get(input[c]).path, outcome))
  /\ UNCHANGED <<fs, op, input, metadata, tempDir, args, outDirAtCall, doneAtCall,
                 fnArg, fnOut>>

(***************************************************************************)
(* extractFrameAtTime, of the processor: it returns a frame or throws.     *)
(***************************************************************************)
DefaultFrameQuality == 85
DefaultFrameWidth == 1280

CallExtractFrameAtTime(c, timestamp) ==
  LET newTemp == createTempDir(fs)
      filePath == Get(resolveVideoPath(getVideoBaseDir, VideoFiles, GoodPath))
  IN  /\ Called(c, "extract_frame_at_time",
                Input(GoodPath, None, None, None, None, Some(timestamp), None, None))
      /\ fs' = [fs EXCEPT ![newTemp] = EmptyDir]
      /\ tempDir' = [tempDir EXCEPT ![c] = Some(newTemp)]
      /\ args' = [args EXCEPT ![c] =
                    Some([flags |-> <<"-ss", "-i", "-frames:v", "-vf", "-q:v", "output">>,
                          ss |-> Some(timestamp), i |-> filePath, t |-> None,
                          fps_interval |-> 0, scale |-> DefaultFrameWidth,
                          q |-> nativeQuality(DefaultFrameQuality), frames |-> 1,
                          output |-> newTemp])]
      /\ runs' = [runs EXCEPT ![c] = Append(@, Run("ffmpeg"))]
      /\ pc' = [pc EXCEPT ![c] = "decode"]
      /\ UNCHANGED <<metadata, result>>

ExtractFrameAtTimeDecoded(c, outcome) ==
  LET written == decoderWrites(fs, Get(args[c]).output, c, outcome)
      done == extractFrameAtTimeSettle(written, Get(tempDir[c]),
                                       Get(Get(input[c]).start_time), runFfmpeg(outcome))
  IN  /\ pc[c] = "decode" /\ op[c] = "extract_frame_at_time"
      /\ runs' = Finished(c, Ran("ffmpeg", outcome))
      /\ fs' = done.dirs
      /\ Return(c, IF done.settled.ok THEN [frame |-> done.settled.value]
                   ELSE Thrown(done.settled.message))
      /\ UNCHANGED <<op, input, metadata, tempDir, args, outDirAtCall, doneAtCall,
                     fnArg, fnOut>>

Next ==
  \E c \in Calls :
    \/ \E in \in ExtractInputs : CallExtractFrames(c, in)
    \/ \E outcome \in ProbeOutcomes : ExtractFramesProbed(c, outcome)
    \/ \E outcome \in DecoderOutcomes(MaxProduced) : ExtractFramesDecoded(c, outcome)
    \/ \E path \in InfoPaths : CallGetVideoInfo(c, path)
    \/ \E outcome \in ProbeOutcomes : GetVideoInfoProbed(c, outcome)
    \/ \E timestamp \in Timestamps : CallExtractFrameAtTime(c, timestamp)
    \/ \E outcome \in DecoderOutcomes(1) : ExtractFrameAtTimeDecoded(c, outcome)

Spec == Init /\ [][Next]_vars

(***************************************************************************)
(* validateExtractFramesOptions applied to options drawn from the bounds   *)
(* of every field, the values next to them, and absent fields.             *)
(***************************************************************************)
ValidatePaths == { GoodPath, P("rel", "clip", ".MOV"), P("rel", "notes", ".txt") }

ValidateOptions ==
  [path : ValidatePaths,
   interval : { None, Some(0), Some(1), Some(600), Some(610) },
   max_frames : { None, Some(0), Some(1), Some(500), Some(501) },
   quality : { None, Some(0), Some(1), Some(100), Some(101) },
   width : { None, Some(50), Some(100), Some(3840), Some(3841) },
   start_time : { None, Some(-10), Some(0), Some(50) },
   end_time : { None, Some(-50), Some(0), Some(50), Some(90) }]

InitValidate ==
  /\ fs = [d \in DirNames |-> NoDir]
  /\ NoCalls
  /\ fnArg \in [fn : {"validateExtractFramesOptions"}, arg : ValidateOptions]
  /\ fnOut = None

Validate ==
  /\ fnArg.fn = "validateExtractFramesOptions" /\ fnOut = None
  /\ fnOut' = Some(validateExtractFramesOptions(getVideoBaseDir, VideoFiles, fnArg.arg))
  /\ UNCHANGED <<fs, pc, op, input, metadata, tempDir, args, runs, result,
                 outDirAtCall, doneAtCall, fnArg>>

NextValidate == Validate

SpecValidate == InitValidate /\ [][NextValidate]_vars


(***************************************************************************)
(* The quality mapping of the decoder's -q:v argument applied to every     *)
(* quality that validation accepts.                                        *)
(***************************************************************************)
NoFiles == [d \in DirNames |-> NoDir]

InitQuality ==
  /\ fs = NoFiles
  /\ NoCalls
  /\ fnArg \in [fn : {"nativeQuality"}, arg : QualityMin..QualityMax]
  /\ fnOut = None

ApplyNativeQuality ==
  /\ fnArg.fn = "nativeQuality" /\ fnOut = None
  /\ fnOut' = Some(nativeQuality(fnArg.arg))
  /\ UNCHANGED <<fs, pc, op, input, metadata, tempDir, args, runs, result,
                 outDirAtCall, doneAtCall, fnArg>>

NextQuality == ApplyNativeQuality

SpecQuality == InitQuality /\ [][NextQuality]_vars

(***************************************************************************)
(* The quality mapping applied to both members of every pair q1 < q2 of    *)
(* the documented range.                                                   *)
(***************************************************************************)
QualityPairs ==
  { p \in (QualityMin..QualityMax) \X (QualityMin..QualityMax) : p[1] < p[2] }

InitQualityOrder ==
  /\ fs = NoFiles
  /\ NoCalls
  /\ fnArg \in [fn : {"nativeQualityOrder"}, arg : QualityPairs]
  /\ fnOut = None

ApplyNativeQualityToPair ==
  /\ fnArg.fn = "nativeQualityOrder" /\ fnOut = None
  /\ fnOut' = Some(<<nativeQuality(fnArg.arg[1]), nativeQuality(fnArg.arg[2])>>)
  /\ UNCHANGED <<fs, pc, op, input, metadata, tempDir, args, runs, result,
                 outDirAtCall, doneAtCall, fnArg>>

NextQualityOrder == ApplyNativeQualityToPair

SpecQualityOrder == InitQualityOrder /\ [][NextQualityOrder]_vars

(***************************************************************************)
(* resolveVideoPath applied to input strings of every shape, under every   *)
(* setting of VIDEO_BASE_DIR and every set of existing regular files drawn *)
(* from a pool.                                                            *)
(***************************************************************************)
ResolveFilePool ==
  { P("base", "demo", ""), P("base", "demo", ".mp4"), P("base", "demo", ".mov"),
    P("base", "demo", ".3gp"), P("cwd", "demo", ".mov"),
    P("root", "demo", ".mkv"), P("home", "demo", ".webm") }

ResolveInputs ==
  { P("rel", "demo", ""), P("rel", "demo", ".mov"), P("rel", "demo", ".avi"),
    P("abs", "demo", ""), P("abs", "demo", ".mkv"), P("tilde", "demo", "") }

BaseDirs == { None, Some("absolute"), Some("relative") }

InitResolve ==
  /\ fs = NoFiles
  /\ NoCalls
  /\ fnArg \in [fn : {"resolveVideoPath"},
                 arg : [baseDir : BaseDirs, files : SUBSET ResolveFilePool,
                        inputPath : ResolveInputs]]
  /\ fnOut = None

ApplyResolveVideoPath ==
  /\ fnArg.fn = "resolveVideoPath" /\ fnOut = None
  /\ fnOut' = Some(resolveVideoPath(IsSome(fnArg.arg.baseDir), fnArg.arg.files,
                                    fnArg.arg.inputPath))
  /\ UNCHANGED <<fs, pc, op, input, metadata, tempDir, args, runs, result,
                 outDirAtCall, doneAtCall, fnArg>>

NextResolve == ApplyResolveVideoPath

SpecResolve == InitResolve /\ [][NextResolve]_vars

(***************************************************************************)
(* formatDuration applied to durations around each carry: whole and        *)
(* fractional seconds, the minute, the hour and the hundredth hour.        *)
(***************************************************************************)
DurationInputs ==
  (0..70) \cup (590..610) \cup {650, 655} \cup (35990..36010)
    \cup (36600..36620) \cup (3599990..3600010)

InitDuration ==
  /\ fs = NoFiles
  /\ NoCalls
  /\ fnArg \in [fn : {"formatDuration"}, arg : DurationInputs]
  /\ fnOut = None

ApplyFormatDuration ==
  /\ fnArg.fn = "formatDuration" /\ fnOut = None
  /\ fnOut' = Some(formatDuration(fnArg.arg))
  /\ UNCHANGED <<fs, pc, op, input, metadata, tempDir, args, runs, result,
                 outDirAtCall, doneAtCall, fnArg>>

NextDuration == ApplyFormatDuration

SpecDuration == InitDuration /\ [][NextDuration]_vars

(***************************************************************************)
(* parseVideoMetadata applied to probe documents whose stream list is any  *)
(* sequence of up to MaxStreams streams drawn from a pool with two video   *)
(* streams, a video stream without codec name, two audio streams and a     *)
(* subtitle stream.                                                        *)
(***************************************************************************)
MaxStreams == 4

StreamPool ==
  { Stream("video", Some("h264"), 1920, 1080, Some(<<30, 1>>)),
    Stream("video", Some("vp9"), 640, 360, Some(<<30000, 1001>>)),
    Stream("video", None, 320, 240, Some(<<2997>>)),
    Stream("audio", Some("aac"), 0, 0, Some(<<0, 0>>)),
    Stream("audio", Some("opus"), 0, 0, Some(<<0, 0>>)),
    Stream("subtitle", Some("subrip"), 0, 0, Some(<<0, 0>>)) }

StreamLists == UNION { [1..n -> StreamPool] : n \in 0..MaxStreams }

InitParse ==
  /\ fs = NoFiles
  /\ NoCalls
  /\ fnArg \in [fn : {"parseVideoMetadata"},
                 arg : { Doc(Some(s), d) : s \in StreamLists, d \in {None, Some(100)} }]
  /\ fnOut = None

ApplyParseVideoMetadata ==
  /\ fnArg.fn = "parseVideoMetadata" /\ fnOut = None
  /\ ~parseThrows(fnArg.arg)
  /\ fnOut' = Some(parseVideoMetadata(GoodPath, fnArg.arg))
  /\ UNCHANGED <<fs, pc, op, input, metadata, tempDir, args, runs, result,
                 outDirAtCall, doneAtCall, fnArg>>

NextParse == ApplyParseVideoMetadata

SpecParse == InitParse /\ [][NextParse]_vars

(***************************************************************************)
(* Vocabulary of the properties.                                           *)
(***************************************************************************)
IsExtract(c) == op[c] = "extract_frames"
Persistent(c) == IsExtract(c) /\ IsSome(Get(input[c]).output_dir)
Ephemeral(c) == IsExtract(c) /\ Get(input[c]).output_dir = None
IsSuccess(r) == "success" \in DOMAIN r /\ r.success
IsFailure(r) == "success" \in DOMAIN r /\ ~r.success
ToolRuns(c, tool) == { i \in DOMAIN runs[c] : runs[c][i].tool = tool }
Jpgs(dir) == { f \in dir.files : f.ext = ".jpg" }
FailedKinds == {"spawn_error", "exit_nonzero", "unparsable"}

\* The probe succeeded, its document parsed, and start_time is before the
\* duration it reports.
PassedChecks(c) ==
  /\ IsSome(metadata[c])
  /\ ~(IsSome(Get(input[c]).start_time)
       /\ Get(Get(input[c]).start_time) >= Get(metadata[c]).duration_seconds)

\* The request breaks one of the documented rules on its numbers and times.
OutOfRange(in) ==
  \/ IsSome(in.interval) /\ (Get(in.interval) < 1 \/ Get(in.interval) > 600)
  \/ IsSome(in.max_frames) /\ (Get(in.max_frames) < 1 \/ Get(in.max_frames) > 500)
  \/ IsSome(in.quality) /\ (Get(in.quality) < 1 \/ Get(in.quality) > 100)
  \/ IsSome(in.width) /\ (Get(in.width) < 100 \/ Get(in.width) > 3840)
  \/ IsSome(in.start_time) /\ Get(in.start_time) < 0
  \/ IsSome(in.start_time) /\ IsSome(in.end_time)
     /\ Get(in.end_time) <= Get(in.start_time)

BadRequest(in) == in.path \in BadPaths \/ OutOfRange(in)

(***************************************************************************)
(* C1: once an extract_frames call made without output_dir, or an          *)
(* extractFrameAtTime call, has returned or thrown, the scratch directory  *)
(* it created no longer exists, whatever the decoder and the reads did.    *)
(***************************************************************************)
C1_ScratchRemoved ==
  \A c \in Calls :
    (pc[c] = "done" /\ (Ephemeral(c) \/ op[c] = "extract_frame_at_time")
     /\ IsSome(tempDir[c]))
      => ~fs[Get(tempDir[c])].exists

\* Both operations have ended on a failure after the decoder ran: a frame file
\* that cannot be read, and a decoder that exits non-zero.
C1_Witness ==
  \E c \in Calls :
    /\ pc[c] = "done" /\ IsSome(tempDir[c])
    /\ \/ Ephemeral(c) /\ IsFailure(result[c]) /\ runs[c][Len(runs[c])].kind = "ok"
       \/ op[c] = "extract_frame_at_time" /\ runs[c][Len(runs[c])].kind = "exit_nonzero"

(***************************************************************************)
(* C2: an extract_frames call given output_dir never deletes that          *)
(* directory nor a file that was in it when the call was made.             *)
(***************************************************************************)
C2_OutputDirKept ==
  \A c \in Calls :
    (Persistent(c) /\ outDirAtCall[c].exists)
      => fs[OutDir].exists /\ outDirAtCall[c].files \subseteq fs[OutDir].files

\* A call into a directory that held a file has ended on a decoder failure.
C2_Witness ==
  \E c \in Calls :
    /\ Persistent(c) /\ pc[c] = "done"
    /\ outDirAtCall[c].files # {}
    /\ ToolRuns(c, "ffmpeg") # {}
    /\ runs[c][Len(runs[c])].kind \in FailedKinds

(***************************************************************************)
(* C3: when output_dir holds .jpg files at the call and validation, the    *)
(* probe and the start_time check pass, the decoder is not run; and if     *)
(* every one of those files can be read, the result has one frame per      *)
(* file, in lexicographic order of the names, frame i at                   *)
(* (start_time or 0) + i * interval of this request; if one cannot be      *)
(* read, the call returns an FFMPEG_ERROR instead.                         *)
(***************************************************************************)
ServesExisting(c) ==
  LET J == Jpgs(outDirAtCall[c])
      in == Get(input[c])
  IN  /\ IsSuccess(result[c])
      /\ Len(result[c].frames) = Cardinality(J)
      /\ \A i \in DOMAIN result[c].frames :
           LET frame == result[c].frames[i]
           IN  /\ frame.index = i - 1
               /\ frame.timestamp_seconds =
                    OrElse(in.start_time, 0) + (i - 1) * OrElse(in.interval, 20)
               /\ \E f \in J :
                    /\ f.content = frame.image
                    /\ Cardinality({ g \in J : LexLess(g.stem, f.stem) }) = i - 1

CacheHit(c) ==
  /\ pc[c] = "done" /\ Persistent(c)
  /\ Jpgs(outDirAtCall[c]) # {}
  /\ PassedChecks(c)

C4_SecondCallReuses ==
  \A c, d \in Calls :
    ( /\ c # d /\ Persistent(c) /\ Persistent(d)
      /\ c \in doneAtCall[d] /\ pc[d] = "done"
      /\ Jpgs(outDirAtCall[c]) = {}
      /\ IsSuccess(result[c]) /\ Len(result[c].frames) >= 1
      /\ metadata[d] = metadata[c]
      /\ \A i \in DOMAIN runs[d] : runs[d][i].kind = "ok" )
      => /\ ToolRuns(d, "ffmpeg") = {}
         /\ IsSuccess(result[d])
         /\ Len(result[d].frames) = Len(result[c].frames)

(***************************************************************************)
(* C5: when start_time is at or after the duration the probe reports, the  *)
(* call returns INVALID_PATH, its message carries both values, and the     *)
(* decoder was not run.                                                    *)
(***************************************************************************)
StartAtOrAfterEnd(c) ==
  /\ IsExtract(c) /\ IsSome(metadata[c])
  /\ IsSome(Get(input[c]).start_time)
  /\ Get(Get(input[c]).start_time) >= Get(metadata[c]).duration_seconds

C5_StartTimeRejected ==
  \A c \in Calls :
    StartAtOrAfterEnd(c) =>
      /\ pc[c] = "done" /\ IsFailure(result[c])
      /\ result[c].error.code = "INVALID_PATH"
      /\ "start_time" \in DOMAIN result[c].error.message
      /\ result[c].error.message.start_time = Get(Get(input[c]).start_time)
      /\ result[c].error.message.duration = Get(metadata[c]).duration_seconds
      /\ ToolRuns(c, "ffmpeg") = {}

\* start_time equal to a duration of 10 s.
C5_Witness ==
  \E c \in Calls :
    /\ StartAtOrAfterEnd(c)
    /\ Get(Get(input[c]).start_time) = 100
    /\ Get(metadata[c]).duration_seconds = 100

(***************************************************************************)
(* C6: a request that fails validation returns a validation error; no      *)
(* probe and no decoder was run and no directory was created.              *)
(***************************************************************************)
C6_InvalidRequestTouchesNothing ==
  \A c \in Calls :
    (IsExtract(c) /\ BadRequest(Get(input[c]))) =>
      /\ pc[c] = "done" /\ IsFailure(result[c])
      /\ result[c].error.code \in {"INVALID_PATH", "FILE_NOT_FOUND", "UNSUPPORTED_FORMAT"}
      /\ runs[c] = <<>>
      /\ tempDir[c] = None
      /\ fs[OutDir] = outDirAtCall[c]
      /\ \A t \in TmpNames : ~fs[t].exists

\* An out-of-range max_frames with an output_dir that does not exist.
C6_Witness ==
  \E c \in Calls :
    /\ IsExtract(c) /\ pc[c] = "done"
    /\ Get(input[c]).max_frames = Some(501)
    /\ Get(input[c]).output_dir = Some(OutDir)
    /\ ~outDirAtCall[c].exists


(***************************************************************************)
(* C7: for a path that passes the path check, validateExtractFramesOptions *)
(* returns an error exactly when interval is outside [0.1, 60], max_frames *)
(* outside [1, 500], quality outside [1, 100], width outside [100, 3840],  *)
(* start_time < 0, or end_time <= start_time with both given; the error is *)
(* INVALID_PATH.  Checked under SpecValidate.                              *)
(***************************************************************************)
C7_RangeRules ==
  (fnArg.fn = "validateExtractFramesOptions" /\ IsSome(fnOut)
   /\ validateVideoPath(getVideoBaseDir, VideoFiles, fnArg.arg.path) = None)
    => /\ IsSome(Get(fnOut)) <=> OutOfRange(fnArg.arg)
       /\ IsSome(Get(fnOut)) => Get(Get(fnOut)).code = "INVALID_PATH"

\* Every bound itself is accepted.
C7_Witness ==
  /\ fnArg.fn = "validateExtractFramesOptions"
  /\ fnArg.arg.interval = Some(600) /\ fnArg.arg.max_frames = Some(500)
  /\ fnArg.arg.quality = Some(1) /\ fnArg.arg.width = Some(3840)
  /\ fnArg.arg.start_time = Some(0) /\ fnArg.arg.end_time = Some(50)
  /\ fnArg.arg.path = P("rel", "clip", ".MOV")
  /\ fnOut = Some(None)

(***************************************************************************)
(* C8: a returned extract_frames or get_video_info call holds either a     *)
(* success with metadata (and frames and extraction_info) and no error, or *)
(* a failure with one error of a known code and nothing else; nothing is   *)
(* thrown.                                                                 *)
(***************************************************************************)
WellFormed(c) ==
  \/ /\ IsSuccess(result[c])
     /\ "error" \notin DOMAIN result[c]
     /\ "metadata" \in DOMAIN result[c]
     /\ "duration_seconds" \in DOMAIN result[c].metadata
     /\ IsExtract(c) => /\ {"frames", "extraction_info"} \subseteq DOMAIN result[c]
                        /\ result[c].extraction_info.total_frames_extracted \in Nat
  \/ /\ IsFailure(result[c])
     /\ DOMAIN result[c] = {"success", "error"}
     /\ result[c].error.code \in ErrorCode

C8_ResultOrError ==
  \A c \in Calls :
    (pc[c] = "done" /\ op[c] \in {"extract_frames", "get_video_info"}) => WellFormed(c)

\* A probe document without streams given to get_video_info.
C8_Witness ==
  \E c \in Calls :
    /\ pc[c] = "done" /\ op[c] = "get_video_info"
    /\ Len(runs[c]) = 1 /\ runs[c][1].kind = "ok"
    /\ IsFailure(result[c])

(***************************************************************************)
(* C9: an extract_frames call runs the probe at most once and the decoder  *)
(* at most once, the decoder only after a probe that succeeded, and a      *)
(* failed run is the call's last: the call has returned an error.          *)
(***************************************************************************)
C9_OneProbeOneDecode ==
  \A c \in Calls :
    IsExtract(c) =>
      /\ Cardinality(ToolRuns(c, "ffprobe")) <= 1
      /\ Cardinality(ToolRuns(c, "ffmpeg")) <= 1
      /\ \A i \in ToolRuns(c, "ffmpeg") :
           \E j \in 1..(i - 1) : runs[c][j].tool = "ffprobe" /\ runs[c][j].kind = "ok"
      /\ \A i \in DOMAIN runs[c] :
           runs[c][i].kind \in FailedKinds
             => i = Len(runs[c]) /\ pc[c] = "done" /\ IsFailure(result[c])

\* A probe that failed, and a decoder that failed after a good probe.
C9_Witness ==
  \E c, d \in Calls :
    /\ IsExtract(c) /\ Len(runs[c]) = 1 /\ runs[c][1].kind = "exit_nonzero"
    /\ IsExtract(d) /\ Len(runs[d]) = 2 /\ runs[d][2].kind = "spawn_error"

(***************************************************************************)
(* C10: a failed probe or decoder run is reported as FFMPEG_NOT_FOUND      *)
(* exactly when the executable could not be started; a run that exited     *)
(* non-zero, or probe output that did not parse, is reported as            *)
(* FFMPEG_ERROR carrying the diagnostic text, whatever the text says.      *)
(***************************************************************************)
C10_ClassifiedByCause ==
  \A c \in Calls :
    (pc[c] = "done" /\ op[c] \in {"extract_frames", "get_video_info"}
     /\ runs[c] # <<>> /\ runs[c][Len(runs[c])].kind \in FailedKinds)
      => LET last == runs[c][Len(runs[c])]
             error == result[c].error
         IN  /\ error.code = "FFMPEG_NOT_FOUND" <=> last.kind = "spawn_error"
             /\ last.kind \in {"exit_nonzero", "unparsable"}
                  => /\ error.code = "FFMPEG_ERROR"
                     /\ \A i \in DOMAIN last.text :
                          Includes(error.message.originalError, last.text[i])


(***************************************************************************)
(* C11: in every successful extract_frames result, fresh or re-read, the   *)
(* frame at 0-based position i has index i and timestamp_seconds =         *)
(* (start_time or 0) + i * interval of the request (interval 2 s when not  *)
(* given); so start_time = 5 s with interval 2 s and three frames gives    *)
(* 5, 7, 9.                                                                *)
(***************************************************************************)
C11_IndexAndTimestamp ==
  \A c \in Calls :
    (IsExtract(c) /\ pc[c] = "done" /\ IsSuccess(result[c]))
      => LET in == Get(input[c])
             start == IF in.start_time = <<>> THEN 0 ELSE in.start_time[1]
             step == IF in.interval = <<>> THEN 20 ELSE in.interval[1]
             frames == result[c].frames
         IN  /\ \A i \in DOMAIN frames :
                  /\ frames[i].index = i - 1
                  /\ frames[i].timestamp_seconds = start + (i - 1) * step
             /\ \A i \in DOMAIN frames : \A j \in DOMAIN frames :
                  i < j => frames[i].timestamp_seconds < frames[j].timestamp_seconds
             /\ (start = 50 /\ step = 20 /\ Len(frames) = 3)
                  => /\ frames[1].timestamp_seconds = 50
                     /\ frames[2].timestamp_seconds = 70
                     /\ frames[3].timestamp_seconds = 90

\* Three fresh frames from 5 s, every 2 s.
C11_Witness ==
  \E c \in Calls :
    /\ pc[c] = "done" /\ IsExtract(c) /\ IsSuccess(result[c])
    /\ Get(input[c]).start_time = Some(50) /\ Get(input[c]).interval = None
    /\ Len(result[c].frames) = 3 /\ ToolRuns(c, "ffmpeg") # {}
    /\ result[c].frames[3].timestamp_seconds = 90


(***************************************************************************)
(* C12: the native quality passed to the decoder is                        *)
(* round((100 - quality) / 3.2 + 2), the integer n with                    *)
(* n - 1/2 <= (100 - quality) / 3.2 + 2 < n + 1/2; quality 75 maps to 10   *)
(* and quality 1 maps to 33.  Checked under SpecQuality.                   *)
(***************************************************************************)
IsRounded(n, quality) ==
  /\ 16 * n - 8 <= 5 * (100 - quality) + 32
  /\ 5 * (100 - quality) + 32 < 16 * n + 8

C12_NativeQuality ==
  (fnArg.fn = "nativeQuality" /\ IsSome(fnOut))
    => /\ IsRounded(Get(fnOut), fnArg.arg)
       /\ fnArg.arg = 75 => Get(fnOut) = 10
       /\ fnArg.arg = 1 => Get(fnOut) = 33

\* The claim as written: quality 1 maps to 32.
C12_QualityOneIs32 ==
  (fnArg.fn = "nativeQuality" /\ IsSome(fnOut))
    => /\ IsRounded(Get(fnOut), fnArg.arg)
       /\ fnArg.arg = 75 => Get(fnOut) = 10
       /\ fnArg.arg = 1 => Get(fnOut) = 32

\* The lowest quality has been mapped.
C12_Witness ==
  fnArg.fn = "nativeQuality" /\ fnArg.arg = 1 /\ fnOut = Some(33)


(***************************************************************************)
(* C13: whatever the input, the base directory and the files that exist,   *)
(* resolveVideoPath returns null or an absolute path that names an         *)
(* existing regular file.  Checked under SpecResolve.                      *)
(***************************************************************************)
C13_NullOrAbsoluteExisting ==
  (fnArg.fn = "resolveVideoPath" /\ IsSome(fnOut))
    => \/ Get(fnOut) = None
       \/ /\ Get(Get(fnOut)) \in fnArg.arg.files
          /\ isAbsolute(fnArg.arg.baseDir, Get(Get(fnOut)))

(***************************************************************************)
(* C14: when the candidate of the chosen stage has no extension and is not *)
(* itself an existing regular file, resolveVideoPath returns candidate+ext *)
(* for the first ext of .mp4 .webm .mov .avi .mkv .m4v .flv .wmv .gif      *)
(* .mpeg .mpg .3gp for which a regular file exists, and null when there is *)
(* none; an extension-less candidate that exists is returned as it is; a   *)
(* candidate with an extension is returned if it exists and null           *)
(* otherwise.  Checked under SpecResolve.                                  *)
(***************************************************************************)
FixedOrder ==
  <<".mp4", ".webm", ".mov", ".avi", ".mkv", ".m4v",
    ".flv", ".wmv", ".gif", ".mpeg", ".mpg", ".3gp">>

Candidate(a) ==
  [a.inputPath EXCEPT !.loc =
     IF a.inputPath.loc = "abs" THEN "root"
     ELSE IF a.inputPath.loc = "tilde" THEN "home"
     ELSE IF a.baseDir # <<>> THEN "base" ELSE "cwd"]

WithExt(p, ext) == [p EXCEPT !.ext = ext]

FirstExisting(p, files) ==
  IF \E i \in DOMAIN FixedOrder : WithExt(p, FixedOrder[i]) \in files
  THEN <<WithExt(p, FixedOrder[
           CHOOSE i \in DOMAIN FixedOrder :
             /\ WithExt(p, FixedOrder[i]) \in files
             /\ \A j \in 1..(i - 1) : WithExt(p, FixedOrder[j]) \notin files])>>
  ELSE <<>>

C14_FirstExtensionInOrder ==
  (fnArg.fn = "resolveVideoPath" /\ IsSome(fnOut))
    => LET candidate == Candidate(fnArg.arg)
           files == fnArg.arg.files
       IN  Get(fnOut) =
             IF candidate \in files THEN <<candidate>>
             ELSE IF candidate.ext = "" THEN FirstExisting(candidate, files)
             ELSE <<>>

\* The claim as written: an extension-less candidate always gets an extension.
C14_ExtensionAlwaysAdded ==
  (fnArg.fn = "resolveVideoPath" /\ IsSome(fnOut))
    => LET candidate == Candidate(fnArg.arg)
           files == fnArg.arg.files
       IN  Get(fnOut) =
             IF candidate.ext = "" THEN FirstExisting(candidate, files)
             ELSE IF candidate \in files THEN <<candidate>>
             ELSE <<>>

\* demo.mp4 and demo.mov both exist and 'demo' resolves to demo.mp4.
C14_Witness ==
  /\ fnArg.fn = "resolveVideoPath"
  /\ fnArg.arg.inputPath = P("rel", "demo", "")
  /\ fnArg.arg.baseDir = Some("absolute")
  /\ { P("base", "demo", ".mp4"), P("base", "demo", ".mov") } \subseteq fnArg.arg.files
  /\ P("base", "demo", "") \notin fnArg.arg.files
  /\ fnOut = Some(Some(P("base", "demo", ".mp4")))


(***************************************************************************)
(* C15: the metadata parseVideoMetadata produces from any probe document   *)
(* has has_audio true exactly when audio_codec is not null.                *)
(***************************************************************************)
C15_HasAudioIffCodec ==
  \A c \in Calls :
    (pc[c] = "done" /\ op[c] \in {"extract_frames", "get_video_info"}
     /\ IsSuccess(result[c]))
      => (result[c].metadata.has_audio <=> result[c].metadata.audio_codec # <<>>)


(***************************************************************************)
(* C16: for s >= 0, formatDuration(s) is MM:SS when s < 3600 and HH:MM:SS  *)
(* otherwise, HH = floor(s / 3600), MM = floor((s mod 3600) / 60),         *)
(* SS = floor(s mod 60), MM and SS written with exactly two digits and HH  *)
(* with two digits, or with all its digits from 100 hours on; 0 gives      *)
(* 00:00, 65 gives 01:05 and 3661 gives 01:01:01.  Checked under           *)
(* SpecDuration.                                                           *)
(***************************************************************************)
RECURSIVE SplitAtColons(_)
SplitAtColons(str) ==
  IF str = <<>> THEN << <<>> >>
  ELSE LET rest == SplitAtColons(Tail(str))
       IN  IF Head(str) = ":" THEN << <<>> >> \o rest
           ELSE << <<Head(str)>> \o rest[1] >> \o Tail(rest)

RECURSIVE NumberOf(_)
NumberOf(digits) ==
  IF digits = <<>> THEN 0
  ELSE 10 * NumberOf(SubSeq(digits, 1, Len(digits) - 1))
       + (CHOOSE d \in 0..9 : Digits[d + 1] = digits[Len(digits)])

\* The components of a formatted duration have the values the claim gives.
ComponentsOf(tenths, parts) ==
  LET hh == tenths \div 36000
      mm == (tenths % 36000) \div 600
      ss == (tenths % 600) \div 10
  IN  /\ \A i \in DOMAIN parts : \A k \in DOMAIN parts[i] :
           \E d \in 0..9 : Digits[d + 1] = parts[i][k]
      /\ IF tenths < 36000
         THEN Len(parts) = 2 /\ NumberOf(parts[1]) = mm /\ NumberOf(parts[2]) = ss
         ELSE /\ Len(parts) = 3 /\ NumberOf(parts[1]) = hh
              /\ NumberOf(parts[2]) = mm /\ NumberOf(parts[3]) = ss

DurationExamples ==
  /\ fnArg.arg = 0 => Get(fnOut) = <<"0", "0", ":", "0", "0">>
  /\ fnArg.arg = 650 => Get(fnOut) = <<"0", "1", ":", "0", "5">>
  /\ fnArg.arg = 36610 => Get(fnOut) = <<"0", "1", ":", "0", "1", ":", "0", "1">>

C16_FormatDuration ==
  (fnArg.fn = "formatDuration" /\ IsSome(fnOut))
    => LET parts == SplitAtColons(Get(fnOut))
       IN  /\ ComponentsOf(fnArg.arg, parts)
           /\ \A i \in DOMAIN parts :
                \/ Len(parts[i]) = 2
                \/ i = 1 /\ Len(parts) = 3 /\ Len(parts[i]) > 2 /\ parts[i][1] # "0"
           /\ DurationExamples

\* The claim as written: every component has exactly two digits.
C16_AlwaysTwoDigits ==
  (fnArg.fn = "formatDuration" /\ IsSome(fnOut))
    => LET parts == SplitAtColons(Get(fnOut))
       IN  /\ ComponentsOf(fnArg.arg, parts)
           /\ \A i \in DOMAIN parts : Len(parts[i]) = 2
           /\ DurationExamples

\* 3661 s has been formatted.
C16_Witness ==
  /\ fnArg.fn = "formatDuration" /\ fnArg.arg = 36610
  /\ fnOut = Some(<<"0", "1", ":", "0", "1", ":", "0", "1">>)


(***************************************************************************)
(* C17: when the input resolves to an existing regular file whose          *)
(* extension, lower-cased, is not one of the twelve allowed (a file        *)
(* without extension included), get_video_info and extract_frames return   *)
(* UNSUPPORTED_FORMAT and run neither the probe nor the decoder; when it   *)
(* is one of them, in any letter case, the path check passes.              *)
(***************************************************************************)
AllowedSpellings ==
  { ".mp4", ".webm", ".mov", ".avi", ".mkv", ".m4v", ".flv", ".wmv", ".gif",
    ".mpeg", ".mpg", ".3gp", ".MP4", ".MOV" }

PathErrors ==
  { "Video path is required", "Video not found", "Unsupported video format",
    "Could not resolve video path" }

ResolvedFile(c) == resolveVideoPath(getVideoBaseDir, VideoFiles, Get(input[c]).path)

C17_UnsupportedFormat ==
  \A c \in Calls :
    (op[c] \in {"extract_frames", "get_video_info"}
     /\ Get(input[c]).path # EmptyPath /\ ResolvedFile(c) # <<>>)
      => IF Get(ResolvedFile(c)).ext \in AllowedSpellings
         THEN /\ ~OutOfRange(Get(input[c])) => ToolRuns(c, "ffprobe") # {}
              /\ IsFailure(result[c]) => result[c].error.message.text \notin PathErrors
         ELSE /\ pc[c] = "done" /\ IsFailure(result[c])
              /\ result[c].error.code = "UNSUPPORTED_FORMAT"
              /\ runs[c] = <<>>

\* clip.MOV has passed the path check and has been probed.
C17_Witness ==
  \E c \in Calls :
    /\ op[c] = "get_video_info" /\ Get(input[c]).path = UpperCasePath
    /\ pc[c] = "done" /\ IsSuccess(result[c])
    /\ result[c].metadata.filepath = P("base", "clip", ".MOV")


(***************************************************************************)
(* C18: an extract_frames call uses one output location, chosen by         *)
(* output_dir alone: given output_dir, the decoder writes into it and the  *)
(* call creates no scratch directory and leaves none behind; without it,   *)
(* the decoder writes into a scratch directory, which is deleted when the  *)
(* call has returned.                                                      *)
(***************************************************************************)
C18_OneOutputLocation ==
  \A c \in Calls :
    /\ Persistent(c)
         => /\ tempDir[c] = <<>>
            /\ args[c] # <<>> => Get(args[c]).output = OutDir
            /\ pc[c] = "done" => \A t \in TmpNames : ~fs[t].exists
    /\ Ephemeral(c)
         => /\ args[c] # <<>> => Get(args[c]).output \in TmpNames
            /\ (pc[c] = "done" /\ tempDir[c] # <<>>) => ~fs[Get(tempDir[c])].exists


(***************************************************************************)
(* C19: validateExtractFramesOptions reports one error, that of the first  *)
(* failing check in the order path, interval, max_frames, quality, width,  *)
(* start_time not negative, end_time after start_time; violations further  *)
(* down the order are not reported.  Checked under SpecValidate.           *)
(***************************************************************************)
FirstViolation(o) ==
  IF o.path = P("rel", "notes", ".txt") THEN "path"
  ELSE IF o.interval # <<>> /\ (o.interval[1] < 1 \/ o.interval[1] > 600) THEN "interval"
  ELSE IF o.max_frames # <<>> /\ (o.max_frames[1] < 1 \/ o.max_frames[1] > 500)
       THEN "max_frames"
  ELSE IF o.quality # <<>> /\ (o.quality[1] < 1 \/ o.quality[1] > 100) THEN "quality"
  ELSE IF o.width # <<>> /\ (o.width[1] < 100 \/ o.width[1] > 3840) THEN "width"
  ELSE IF o.start_time # <<>> /\ o.start_time[1] < 0 THEN "start_time"
  ELSE IF o.start_time # <<>> /\ o.end_time # <<>> /\ o.end_time[1] <= o.start_time[1]
       THEN "end_time"
  ELSE "none"

ReportedViolation(err) ==
  IF err = <<>> THEN "none"
  ELSE IF err[1].code # "INVALID_PATH" THEN "path"
  ELSE IF "field" \in DOMAIN err[1].message THEN err[1].message.field
  ELSE IF err[1].message.text = "start_time cannot be negative" THEN "start_time"
  ELSE IF err[1].message.text = "end_time must be greater than start_time" THEN "end_time"
  ELSE "path"

C19_FirstViolationOnly ==
  (fnArg.fn = "validateExtractFramesOptions" /\ IsSome(fnOut))
    => ReportedViolation(Get(fnOut)) = FirstViolation(fnArg.arg)

\* Six violations at once, and the one of the interval is reported.
C19_Witness ==
  /\ fnArg.fn = "validateExtractFramesOptions"
  /\ fnArg.arg.path = GoodPath
  /\ fnArg.arg.interval = Some(0) /\ fnArg.arg.max_frames = Some(501)
  /\ fnArg.arg.quality = Some(0) /\ fnArg.arg.width = Some(50)
  /\ fnArg.arg.start_time = Some(-10) /\ fnArg.arg.end_time = Some(-50)
  /\ IsSome(fnOut) /\ ReportedViolation(Get(fnOut)) = "interval"


(***************************************************************************)
(* C20: the decoder arguments of extract_frames hold a seek to start_time, *)
(* before the input file, whenever start_time is given and greater than 0, *)
(* and no seek otherwise; a duration limit of end_time - start_time when   *)
(* both times are given, of end_time when only end_time is given, and no   *)
(* duration limit when end_time is absent.                                 *)
(***************************************************************************)
Before(flags, x, y) ==
  \E i \in DOMAIN flags : \E j \in DOMAIN flags : i < j /\ flags[i] = x /\ flags[j] = y

HasFlag(flags, x) == \E i \in DOMAIN flags : flags[i] = x

DurationLimit(c) ==
  LET a == Get(args[c])
      in == Get(input[c])
  IN  /\ HasFlag(a.flags, "-t") <=> a.t # <<>>
      /\ (in.end_time # <<>> /\ in.start_time # <<>>)
           => a.t = <<in.end_time[1] - in.start_time[1]>>
      /\ (in.end_time # <<>> /\ in.start_time = <<>>) => a.t = in.end_time
      /\ in.end_time = <<>> => a.t = <<>>

SeekTo(c, time) ==
  /\ Get(args[c]).ss = time
  /\ Before(Get(args[c]).flags, "-ss", "-i")

NoSeek(c) == Get(args[c]).ss = <<>> /\ ~HasFlag(Get(args[c]).flags, "-ss")

C20_SeekAndLimit ==
  \A c \in Calls :
    (IsExtract(c) /\ args[c] # <<>>)
      => LET start == Get(input[c]).start_time
         IN  /\ (start # <<>> /\ start[1] > 0) => SeekTo(c, start)
             /\ (start = <<>> \/ start[1] = 0) => NoSeek(c)
             /\ DurationLimit(c)

\* The claim as written: a seek whenever start_time is given.
C20_SeekWheneverGiven ==
  \A c \in Calls :
    (IsExtract(c) /\ args[c] # <<>>)
      => LET start == Get(input[c]).start_time
         IN  /\ start # <<>> => SeekTo(c, start)
             /\ start = <<>> => NoSeek(c)
             /\ DurationLimit(c)

\* A decoder launched for the window from 5 s to 9 s.
C20_Witness ==
  \E c \in Calls :
    /\ IsExtract(c) /\ args[c] # <<>>
    /\ Get(input[c]).start_time = Some(50) /\ Get(input[c]).end_time = Some(90)
    /\ Get(args[c]).ss = Some(50) /\ Get(args[c]).t = Some(40)
    /\ ToolRuns(c, "ffmpeg") # {}


(***************************************************************************)
(* C21: every decoder invocation of extract_frames carries a frame cap     *)
(* equal to the request's max_frames, 30 when that is not given, whatever  *)
(* the interval and the time window; and a successful fresh extraction     *)
(* returns at most that many frames.                                       *)
(***************************************************************************)
RequestedMaxFrames(c) ==
  IF Get(input[c]).max_frames = <<>> THEN 30 ELSE Get(input[c]).max_frames[1]

FreshSuccess(c) ==
  /\ IsExtract(c) /\ pc[c] = "done" /\ IsSuccess(result[c])
  /\ ToolRuns(c, "ffmpeg") # {}

C21_FrameCap ==
  \A c \in Calls :
    /\ (IsExtract(c) /\ args[c] # <<>>)
         => /\ Get(args[c]).frames = RequestedMaxFrames(c)
            /\ HasFlag(Get(args[c]).flags, "-frames:v")
    /\ FreshSuccess(c) => Len(result[c].frames) <= RequestedMaxFrames(c)

\* A fresh extraction with max_frames = 1 and a window of 4 s that returned
\* its one frame.
C21_Witness ==
  \E c \in Calls :
    /\ FreshSuccess(c)
    /\ Get(input[c]).max_frames = Some(1)
    /\ Get(input[c]).start_time = Some(50) /\ Get(input[c]).end_time = Some(90)
    /\ Get(args[c]).frames = 1
    /\ Len(result[c].frames) = 1


(***************************************************************************)
(* C22: the mapping from quality to the decoder's native quality is        *)
(* monotonically non-increasing over the integers of [1, 100]: q1 < q2     *)
(* gives native(q1) >= native(q2); and native(100) = 2 is its minimum.     *)
(***************************************************************************)
C22_NonIncreasing ==
  (fnArg.fn = "nativeQualityOrder" /\ fnOut # <<>>)
    => LET q1 == fnArg.arg[1]
           q2 == fnArg.arg[2]
           n1 == fnOut[1][1]
           n2 == fnOut[1][2]
       IN  /\ n1 >= n2
           /\ n1 >= 2 /\ n2 >= 2
           /\ q2 = 100 => n2 = 2

\* The two ends of the range, 1 and 100, mapped to 33 and 2.
C22_Witness ==
  /\ fnArg.fn = "nativeQualityOrder" /\ fnOut # <<>>
  /\ fnArg.arg = <<1, 100>>
  /\ fnOut[1] = <<33, 2>>


(***************************************************************************)
(* C23: resolveVideoPath uses exactly one resolution stage, chosen by the  *)
(* shape of the input in the order absolute, home-marker prefix,           *)
(* configured base directory, working directory, and never falls through   *)
(* to a later stage: a result lies in the chosen stage's location; an      *)
(* absolute path of an existing regular file is returned unchanged; and    *)
(* with the base directory configured a relative name is looked up only    *)
(* under the base directory, never under the working directory.            *)
(***************************************************************************)
StageOf(a) ==
  CASE a.inputPath.loc = "abs" -> "root"
    [] a.inputPath.loc = "tilde" -> "home"
    [] a.inputPath.loc = "rel" /\ a.baseDir # <<>> -> "base"
    [] a.inputPath.loc = "rel" /\ a.baseDir = <<>> -> "cwd"

C23_OneStage ==
  (fnArg.fn = "resolveVideoPath" /\ IsSome(fnOut))
    => LET a == fnArg.arg
           in == a.inputPath
           out == Get(fnOut)
       IN  /\ out # <<>>
                => /\ out[1].loc = StageOf(a)
                   /\ out[1].stem = in.stem
                   /\ out[1] \in a.files
           /\ (\A f \in a.files : f.loc # StageOf(a)) => out = <<>>
           /\ (in.loc = "abs" /\ P("root", in.stem, in.ext) \in a.files)
                => out = <<P("root", in.stem, in.ext)>>
           /\ (in.loc = "rel" /\ a.baseDir # <<>> /\ out # <<>>)
                => out[1].loc = "base"

\* demo.mov exists in the working directory only, the base directory is
\* configured, and 'demo.mov' resolves to nothing.
C23_Witness ==
  /\ fnArg.fn = "resolveVideoPath" /\ IsSome(fnOut)
  /\ fnArg.arg.baseDir # <<>>
  /\ fnArg.arg.inputPath = P("rel", "demo", ".mov")
  /\ P("cwd", "demo", ".mov") \in fnArg.arg.files
  /\ P("base", "demo", ".mov") \notin fnArg.arg.files
  /\ Get(fnOut) = <<>>


(***************************************************************************)
(* C24: two concurrent extract_frames calls given the same output_dir are  *)
(* not synchronised, and when both have found the directory without .jpg   *)
(* files and both have invoked the decoder, both decoders were invoked     *)
(* into that directory.                                                    *)
(***************************************************************************)
BothDecoding(c, d) ==
  /\ c # d /\ Persistent(c) /\ Persistent(d)
  /\ Get(input[c]).output_dir = Get(input[d]).output_dir
  /\ pc[c] = "decode" /\ pc[d] = "decode"
  /\ Jpgs(fs[OutDir]) = {}

C24_BothDecodeIntoOutputDir ==
  \A c \in Calls : \A d \in Calls :
    BothDecoding(c, d)
      => /\ Get(args[c]).output = Get(Get(input[c]).output_dir)
         /\ Get(args[d]).output = Get(Get(input[d]).output_dir)


(***************************************************************************)
(* C25: parseVideoMetadata takes codec, width, height and frame rate from  *)
(* the first stream of type video and the audio codec from the first       *)
(* stream of type audio, in list order, ignoring later streams of the same *)
(* type; without a video stream the resolution and the codec are           *)
(* 'unknown'; without an audio stream audio_codec is null and has_audio    *)
(* false; and a result is returned in either case.                         *)
(***************************************************************************)
Lowest(S) == CHOOSE i \in S : \A j \in S : i <= j

OfType(streams, type) == { i \in DOMAIN streams : streams[i].codec_type = type }

C25_FirstStreams ==
  (fnArg.fn = "parseVideoMetadata" /\ fnOut # <<>>)
    => LET streams == fnArg.arg.streams[1]
           videos == OfType(streams, "video")
           audios == OfType(streams, "audio")
           out == fnOut[1]
       IN  /\ {"resolution", "codec", "audio_codec", "has_audio"} \subseteq DOMAIN out
           /\ videos # {}
                => LET v == streams[Lowest(videos)]
                   IN  /\ out.codec = (IF v.codec_name = <<>> THEN "unknown"
                                       ELSE v.codec_name[1])
                       /\ out.width = v.width /\ out.height = v.height
                       /\ out.resolution = <<<<v.width, v.height>>>>
                       /\ out.fps = frameRate(<<v>>)
           /\ videos = {} => out.resolution = <<>> /\ out.codec = "unknown"
           /\ audios # {}
                => out.audio_codec = streams[Lowest(audios)].codec_name
           /\ audios = {} => out.audio_codec = <<>> /\ ~out.has_audio

\* Two video streams and two audio streams: the vp9 stream at 29.97 frames
\* per second and the opus stream come first and are the ones reported.
C25_Witness ==
  /\ fnArg.fn = "parseVideoMetadata" /\ fnOut # <<>>
  /\ Len(fnArg.arg.streams[1]) = 4
  /\ fnArg.arg.streams[1][1].codec_name = <<"vp9">>
  /\ fnArg.arg.streams[1][2].codec_name = <<"opus">>
  /\ fnArg.arg.streams[1][3].codec_name = <<"h264">>
  /\ fnArg.arg.streams[1][4].codec_name = <<"aac">>
  /\ fnOut[1].codec = "vp9" /\ fnOut[1].audio_codec = <<"opus">>
  /\ fnOut[1].width = 640 /\ fnOut[1].fps = Fps(2997)


(***************************************************************************)
(* C26: in every successful extract_frames result, on the                  *)
(* fresh-extraction path and on the cache-hit path alike,                  *)
(* extraction_info.total_frames_extracted equals the number of frames      *)
(* returned; on the fresh-extraction path that number is at most the       *)
(* request's max_frames.                                                   *)
(***************************************************************************)
ExtractSuccess(c) == IsExtract(c) /\ pc[c] = "done" /\ IsSuccess(result[c])

TotalIsCount(c) ==
  result[c].extraction_info.total_frames_extracted = Len(result[c].frames)

C26_TotalFramesExtracted ==
  \A c \in Calls :
    ExtractSuccess(c)
      => /\ TotalIsCount(c)
         /\ ToolRuns(c, "ffmpeg") # {}
              => Len(result[c].frames) <= RequestedMaxFrames(c)

\* The claim as written: at most max_frames on the cache-hit path too.
C26_NeverMoreThanMaxFrames ==
  \A c \in Calls :
    ExtractSuccess(c)
      => /\ TotalIsCount(c)
         /\ Len(result[c].frames) <= RequestedMaxFrames(c)

\* A cache hit that reports the three frames it serves to a request with
\* max_frames = 1.
C26_Witness ==
  \E c \in Calls :
    /\ ExtractSuccess(c) /\ ToolRuns(c, "ffmpeg") = {}
    /\ Get(input[c]).max_frames = Some(1)
    /\ result[c].extraction_info.total_frames_extracted = 3
    /\ Len(result[c].frames) = 3


(***************************************************************************)
(* C27: whenever the decoder of extract_frames is invoked with a duration  *)
(* limit, the limit is strictly greater than 0, for every request that     *)
(* passed validation, requests with end_time and no start_time included.   *)
(***************************************************************************)
C27_PositiveDurationLimit ==
  \A c \in Calls :
    (IsExtract(c) /\ args[c] # <<>> /\ Get(args[c]).t # <<>>)
      => Get(args[c]).t[1] > 0


(***************************************************************************)
(* C28: a valid extract_frames call whose output_dir already holds .jpg    *)
(* files still invokes the probe exactly once, and the start_time check    *)
(* comes before the directory is inspected: when the probe fails or        *)
(* start_time >= duration, the call returns an error, without any of the   *)
(* cached frames and without a decoder run.                                *)
(***************************************************************************)
OverCachedFrames(c) ==
  /\ Persistent(c) /\ ~BadRequest(Get(input[c]))
  /\ Jpgs(outDirAtCall[c]) # {}

C28_ProbeAndStartTimeFirst ==
  \A c \in Calls :
    OverCachedFrames(c)
      => /\ Cardinality(ToolRuns(c, "ffprobe")) = 1
         /\ (pc[c] = "done" /\ ~PassedChecks(c))
              => /\ IsFailure(result[c])
                 /\ "frames" \notin DOMAIN result[c]
                 /\ ToolRuns(c, "ffmpeg") = {}

\* Three cached frames, and start_time equal to the duration of 10 s: the
\* probe ran once and the call returned the start_time error.
C28_Witness ==
  \E c \in Calls :
    /\ OverCachedFrames(c) /\ pc[c] = "done"
    /\ Cardinality(Jpgs(outDirAtCall[c])) = 3
    /\ Get(input[c]).start_time = Some(100)
    /\ metadata[c] # <<>> /\ metadata[c][1].duration_seconds = 100
    /\ Len(runs[c]) = 1 /\ runs[c][1].kind = "ok"
    /\ IsFailure(result[c]) /\ "start_time" \in DOMAIN result[c].error.message


(***************************************************************************)
(* C29: an extract_frames call that returns an error from validation, path *)
(* resolution, the probe or the start_time check has neither created nor   *)
(* modified output_dir: output_dir changes only by being created, missing  *)
(* before, in the step in which a call that passed all of those and found  *)
(* no cached frame launches its decoder.                                   *)
(***************************************************************************)
LaunchesDecoder(c) ==
  /\ Persistent(c) /\ ~BadRequest(Get(input[c]))
  /\ pc[c] = "probe" /\ pc'[c] = "decode"
  /\ PassedChecks(c)'
  /\ runs'[c][Len(runs'[c])] = Run("ffmpeg")

OutputDirStep ==
  fs'[OutDir] # fs[OutDir]
    => /\ ~fs[OutDir].exists
       /\ fs'[OutDir].exists /\ fs'[OutDir].files = {}
       /\ \E c \in Calls : LaunchesDecoder(c)

C29_OutputDirCreatedLast == [][OutputDirStep]_vars

\* A call with an output_dir that did not exist was rejected by the
\* start_time check, another was rejected by a failing probe, and the
\* directory still does not exist.
C29_Witness ==
  \E c \in Calls : \E d \in Calls \ {c} :
    /\ Persistent(c) /\ pc[c] = "done" /\ IsFailure(result[c])
    /\ ~outDirAtCall[c].exists
    /\ "start_time" \in DOMAIN result[c].error.message
    /\ Persistent(d) /\ pc[d] = "done" /\ IsFailure(result[d])
    /\ Len(runs[d]) = 1 /\ runs[d][1].kind \in FailedKinds
    /\ ~fs[OutDir].exists


(***************************************************************************)
(* C30: concurrent extract_frames calls without output_dir each use their  *)
(* own uniquely named scratch directory: no two calls share one, the       *)
(* directory of a call whose decoder is running exists (no other call's    *)
(* cleanup has deleted it), and a successful call's result holds only      *)
(* frames that its own decoder run produced.                               *)
(***************************************************************************)
C30_OwnScratchDirectory ==
  \A c \in Calls :
    Ephemeral(c)
      => /\ \A d \in Calls \ {c} :
              (tempDir[c] # <<>> /\ tempDir[d] # <<>>) => tempDir[c] # tempDir[d]
         /\ pc[c] = "decode"
              => /\ fs[tempDir[c][1]].exists
                 /\ args[c][1].output = tempDir[c][1]
                 /\ \A f \in fs[tempDir[c][1]].files : f.content = c
         /\ (pc[c] = "done" /\ IsSuccess(result[c]))
              => \A i \in DOMAIN result[c].frames : result[c].frames[i].image = c

\* Two calls that ran at the same time, each in its own scratch directory,
\* have both returned the frames of their own decoder run.
C30_Witness ==
  \E c \in Calls : \E d \in Calls \ {c} :
    /\ Ephemeral(c) /\ Ephemeral(d)
    /\ doneAtCall[c] = {} /\ doneAtCall[d] = {}
    /\ pc[c] = "done" /\ pc[d] = "done"
    /\ IsSuccess(result[c]) /\ IsSuccess(result[d])
    /\ Len(result[c].frames) = 3 /\ Len(result[d].frames) = 2
    /\ tempDir[c] # tempDir[d]
    /\ \A i \in DOMAIN result[d].frames : result[d].frames[i].image = d

====
